---- MODULE Spec2Model ----
(***************************************************************************)
(* Setlist manager: the optimistic reconciliation engine.                  *)
(*                                                                         *)
(*   - the remote (n8n webhooks in front of a sheet), as far as the client *)
(*     observes it: rows of songs, rows of setlists with their items;      *)
(*   - the Remote Gateway functions of api/n8nClient.ts;                   *)
(*   - the Local State Store of state/AppContext.tsx;                      *)
(*   - the SetlistDetail component with its pending overlay (localItems,   *)
(*     hasUnsavedChanges, prevItemsKeyRef).                                *)
(*                                                                         *)
(* Identifiers are numeric strings in the program ("1", "2", ...); they    *)
(* are written here as the numbers parseInt gives for them.  An item is a  *)
(* record [id, songId, position].  Every await of an async function is a   *)
(* separate step: the remote call and the continuation up to the next      *)
(* await happen in one step, and steps of different operations interleave. *)
(***************************************************************************)
EXTENDS Integers, Sequences, FiniteSets, TLC

\* Bounds of the model.
MaxActions == 4
MaxLen == 2
MaxRows == 1
MaxCalls == 2

\* The songs and setlists of the remote at start-up.
SongIds == {1, 2, 3}
NoSong == 0
NoSetlist == 0

VARIABLES
    remoteSongs,        \* remote: the song rows, sequence of [id, title, artist]
    remoteSetlists,     \* remote: sequence of [id, name, items]
    pendingSync,        \* remote: accepted ("Workflow was started") sync_items not yet landed
    songs,              \* AppContext: songs, sequence of [id, title, artist]
    setlists,           \* AppContext: setlists, sequence of [id, name, items]
    isLoading,          \* AppContext: isLoading
    error,              \* AppContext: error ("" is null)
    selectedSetlist,    \* SetlistsView: id of the selected setlist, NoSetlist when none
    localItems,         \* SetlistDetail: localItems
    hasUnsavedChanges,  \* SetlistDetail: hasUnsavedChanges
    prevItemsKeyRef,    \* SetlistDetail: prevItemsKeyRef.current
    draggedItem,        \* SetlistDetail: draggedItem (<<>> is null)
    save,               \* the handleSaveChanges call in flight
    op,                 \* the other store operation in flight
    actions,            \* number of user actions so far
    last,               \* the step taken last
    syncItems,          \* syncSetlistItems: the items argument of the call
    sent,               \* the request body the call posted to SAVE_SETLIST_ITEM (<<>>: none)
    songCall,           \* the saveSong call
    API_BASE,           \* n8nClient: the webhook URLs read from the environment
    gateway,            \* n8nClient: the call made last, as its caller and the network saw it
    creates,            \* AppContext: the addSong and addSetlist calls in flight, by caller
    reply,              \* n8nClient: the JSON value a successful read was answered with
    normalized          \* n8nClient: what fetchSongs or fetchSetlists made of the reply

remoteVars == <<remoteSongs, remoteSetlists, pendingSync>>
storeVars == <<songs, setlists, isLoading, error>>
detailVars == <<selectedSetlist, localItems, hasUnsavedChanges, prevItemsKeyRef, draggedItem>>
gatewayVars == <<API_BASE, gateway>>
createVars == <<creates>>
normalizerVars == <<reply, normalized>>
callVars == <<syncItems, sent, songCall, gatewayVars, createVars, normalizerVars>>

----------------------------------------------------------------------------
\* Sequence helpers (Array.prototype.map / filter / find / sort).

Range(s) == {s[i] : i \in 1..Len(s)}

\* findIndex: hits[i] tells whether the i-th element satisfies the predicate;
\* the index of the first that does, 0 when there is none (findIndex gives -1).
FindIndex(hits) ==
    IF \E i \in 1..Len(hits) : hits[i]
    THEN CHOOSE i \in 1..Len(hits) : hits[i] /\ \A j \in 1..(i - 1) : ~hits[j]
    ELSE 0

\* Insert x into the position-sorted sequence s after every element whose
\* position is not greater: the step of a stable sort.
RECURSIVE InsertByPosition(_, _)
InsertByPosition(x, s) ==
    IF s = <<>> THEN <<x>>
    ELSE IF x.position < Head(s).position THEN <<x>> \o s
    ELSE <<Head(s)>> \o InsertByPosition(x, Tail(s))

RECURSIVE SortFrom(_, _)
SortFrom(s, acc) ==
    IF s = <<>> THEN acc ELSE SortFrom(Tail(s), InsertByPosition(Head(s), acc))

\* [...items].sort((a, b) => a.position - b.position): stable, ascending.
SortByPosition(items) == SortFrom(items, <<>>)

\* items.map((item, index) => ({ ...item, position: index }))
Renumber(items) == [i \in 1..Len(items) |-> [items[i] EXCEPT !.position = i - 1]]

\* Math.max(...items.map((item) => item.position)), -1 for an empty list.
MaxPosition(items) ==
    IF items = <<>> THEN -1
    ELSE CHOOSE p \in {items[i].position : i \in 1..Len(items)} :
            \A i \in 1..Len(items) : items[i].position <= p

\* The largest numeric item id among the items of a list, at least floor.
MaxIdOf(items, floor) ==
    CHOOSE m \in {floor} \cup {items[i].id : i \in 1..Len(items)} :
        /\ m >= floor
        /\ \A i \in 1..Len(items) : items[i].id <= m

RECURSIVE MaxItemIdFrom(_, _)
MaxItemIdFrom(sls, floor) ==
    IF sls = <<>> THEN floor
    ELSE MaxItemIdFrom(Tail(sls), MaxIdOf(Head(sls).items, floor))

\* let maxItemId = 0; setlists.forEach(sl => sl.items.forEach(...))
MaxItemId(sls) == MaxItemIdFrom(sls, 0)

\* positions are exactly 0..n-1 in array order
Dense(items) == \A i \in 1..Len(items) : items[i].position = i - 1

\* The items are in ascending position order.
InPositionOrder(items) ==
    \A i \in 1..Len(items) : \A j \in i..Len(items) : items[i].position <= items[j].position

\* setlists.find((s) => s.id === id); <<>> stands for undefined
FindById(sls, id) ==
    LET i == FindIndex([k \in 1..Len(sls) |-> sls[k].id = id]) IN IF i = 0 THEN <<>> ELSE <<sls[i]>>

FindByName(sls, name) ==
    LET i == FindIndex([k \in 1..Len(sls) |-> sls[k].name = name]) IN IF i = 0 THEN <<>> ELSE <<sls[i]>>

ItemsOf(sls, id) ==
    LET f == FindById(sls, id) IN IF f = <<>> THEN <<>> ELSE f[1].items


----------------------------------------------------------------------------
\* Remote Gateway (api/n8nClient.ts).

\* A song: the string fields are "" when absent (undefined and '' are both
\* falsy and the code tests them by truthiness only).
Song(id, title, artist) == [id |-> id, title |-> title, artist |-> artist]

\* fetchSongs: the remote's song rows as canonical songs (title: item.title
\* || '', artist: item.artist || undefined).
fetchSongs(rows) ==
    [i \in 1..Len(rows) |-> Song(rows[i].id, rows[i].title, rows[i].artist)]

\* songs.find((s) => s.id === id) finds one
HasSong(sgs, id) == \E i \in 1..Len(sgs) : sgs[i].id = id

\* fetchSetlists, item mapping: items without a song reference are dropped,
\* the others keep id, songId and position.
FetchedItems(rowItems) == SelectSeq(rowItems, LAMBDA it : it.songId # NoSong)

\* fetchSetlists: the remote's setlist rows as canonical setlists.
fetchSetlists(rows) ==
    [i \in 1..Len(rows) |->
        [id |-> rows[i].id, name |-> rows[i].name, items |-> FetchedItems(rows[i].items)]]

\* Positions counted from one.
SequentialPositionsFromOne(items) ==
    [i \in 1..Len(items) |-> [items[i] EXCEPT !.position = i]]

\* syncSetlistItems: the positions of the request body are the array indexes.
SequentialPositions(items) == Renumber(items)

\* A request body built from the items as the caller gave them.
SyncRequestBodyRaw(setlistId, items) ==
    [setlistId |-> setlistId, items |-> items, mode |-> "sync_items"]

\* syncSetlistItems: the request body posted with mode "sync_items".
SyncRequestBody(setlistId, items) ==
    [setlistId |-> setlistId, items |-> SequentialPositions(items), mode |-> "sync_items"]

\* The remote adding the item rows of the body to those of the setlist.
RemoteApplySyncAppending(rows, body) ==
    [i \in 1..Len(rows) |->
        IF rows[i].id = body.setlistId THEN [rows[i] EXCEPT !.items = @ \o body.items] ELSE rows[i]]

\* The remote replaces all item rows of the setlist the body names.
RemoteApplySync(rows, body) ==
    [i \in 1..Len(rows) |->
        IF rows[i].id = body.setlistId THEN [rows[i] EXCEPT !.items = body.items] ELSE rows[i]]

\* The remote appends one item row to the setlist the add_item body names.
RemoteApplyAdd(rows, setlistId, item) ==
    [i \in 1..Len(rows) |->
        IF rows[i].id = setlistId THEN [rows[i] EXCEPT !.items = Append(@, item)] ELSE rows[i]]

----------------------------------------------------------------------------
\* SetlistDetail (components/SetlistDetail.tsx).

\* latestSetlist.items: the selected setlist as the store has it.  (The store
\* never loses a setlist here, so the "|| setlist" fallback is not taken.)
LatestItems(sls, sel) == ItemsOf(sls, sel)

\* itemsKey: the sorted items as "id:songId:position" joined by commas; two
\* keys are equal exactly when the sorted triples are.
ItemsKey(sls, sel) == SortByPosition(LatestItems(sls, sel))

\* The sync effect taking every change of the store's items.
ShouldSyncAlways(unsaved, prevKey, itemsKey) == prevKey # itemsKey

\* The condition of the sync effect.
ShouldSync(unsaved, prevKey, itemsKey) == ~unsaved /\ prevKey # itemsKey

\* One render commit of the mounted SetlistDetail followed by its sync effect:
\* the store has become sls, the handler has set hasUnsavedChanges to unsaved
\* and localItems to loc.
Commit(sls, unsaved, loc) ==
    LET itemsKey == ItemsKey(sls, selectedSetlist) IN
    /\ hasUnsavedChanges' = unsaved
    /\ IF selectedSetlist # NoSetlist /\ ShouldSync(unsaved, prevItemsKeyRef, itemsKey)
         THEN /\ localItems' = SortByPosition(LatestItems(sls, selectedSetlist))
              /\ prevItemsKeyRef' = itemsKey
         ELSE /\ localItems' = loc
              /\ prevItemsKeyRef' = prevItemsKeyRef

\* A change of the store's setlists while the component keeps its own state.
StoreChanged(sls) == Commit(sls, hasUnsavedChanges, localItems)

\* A user action: the bound on their number is the bound of the model.
UserAction == actions < MaxActions /\ actions' = actions + 1

\* known: the store's setlists as the operation sees them until its first
\* await has answered, those of the render it was called from.
NoSave == [pc |-> "idle", setlistId |-> NoSetlist, items |-> <<>>, body |-> <<>>,
           retryCount |-> 0, detached |-> FALSE, known |-> <<>>]
NoSongCall == [pc |-> "idle", mode |-> "", song |-> <<>>, attempt |-> 0, write |-> "none",
               allSongs |-> <<>>, updatedSong |-> <<>>, via |-> "", result |-> <<>>,
               trips |-> 0, error |-> ""]
NoOp == [kind |-> "none", pc |-> "idle", a |-> 0, b |-> 0, body |-> <<>>, items |-> <<>>,
         known |-> <<>>]
\* The step taken last: what it completed (for a failed operation the await
\* it failed at), and the error a gateway call threw in it and the error the
\* operation threw to its caller ("" for none).
Step(act, x) == [act |-> act, x |-> x, raised |-> "", thrown |-> ""]
Fault(act, x, raised, thrown) == [act |-> act, x |-> x, raised |-> raised, thrown |-> thrown]


\* API_BASE: a URL is "" when its environment variable is not set (getEnvVar
\* returns value || ''), the placeholder of the example environment, or the
\* URL of a webhook.
Unset == ""
Placeholder == "https://your-n8n-webhook-url"
Webhook == "https://n8n/webhook"
UrlKeys == {"GET_SONGS", "SAVE_SONG", "DELETE_SONG", "GET_SETLISTS", "SAVE_SETLIST",
            "SAVE_SETLIST_ITEM", "DELETE_SETLIST"}
AllConfigured == [k \in UrlKeys |-> Webhook]

\* No gateway call has been made.
\* The callers of the store's create operations, none of them in a call.
Callers == {1, 2}
\* A create call: the ids it scanned and the id it proposes, as strings,
\* the name or title it was given, and for an item the ids given, the
\* request and the fetched items.
NoCreate == [kind |-> "none", pc |-> "idle", scanned |-> <<>>, id |-> "", name |-> "",
             setlistId |-> 0, songId |-> 0, body |-> <<>>, items |-> <<>>, known |-> <<>>]
NoCreates == [c \in Callers |-> NoCreate]

\* No reply read yet, nothing made of it.
NoReply == <<>>
NotNormalized == [fn |-> "", outcome |-> "", value |-> <<>>]

NoCall == [fn |-> "", url |-> "", answer |-> "", fetches |-> 0, outcome |-> "", error |-> "",
           value |-> <<>>]

----------------------------------------------------------------------------
\* Start-up.

Item(id, songId, position) == [id |-> id, songId |-> songId, position |-> position]

\* The rows the remote holds when the application starts.
InitialSongRows == << Song(1, "A", ""), Song(2, "B", ""), Song(3, "C", "") >>

InitialSetlistRows ==
    << [id |-> 1, name |-> "S", items |-> <<Item(1, 1, 0), Item(2, 2, 1)>>],
       [id |-> 2, name |-> "T", items |-> <<Item(3, 2, 0)>>] >>

\* The application before loadData has run, no call in flight.
InitApp ==
    /\ remoteSetlists = InitialSetlistRows
    /\ pendingSync = <<>>
    /\ songs = <<>>
    /\ setlists = <<>>
    /\ isLoading = TRUE
    /\ error = ""
    /\ selectedSetlist = NoSetlist
    /\ localItems = <<>>
    /\ hasUnsavedChanges = FALSE
    /\ prevItemsKeyRef = <<>>
    /\ draggedItem = <<>>
    /\ save = NoSave
    /\ op = NoOp
    /\ actions = 0
    /\ last = Step("", 0)

Init ==
    /\ InitApp
    /\ remoteSongs = InitialSongRows
    /\ syncItems = <<>>
    /\ sent = <<>>
    /\ songCall = NoSongCall
    /\ API_BASE = AllConfigured
    /\ gateway = NoCall
    /\ creates = NoCreates
    /\ reply = NoReply
    /\ normalized = NotNormalized

\* AppProvider, loadData: the songs are fetched and stored, then the setlists;
\* fetchSetlists may return no setlists, its failure is caught and leaves the
\* setlists empty without an error, a failure of fetchSongs sets the error
\* and loads nothing.
LoadData(outcome) ==
    /\ isLoading
    /\ outcome \in {"loaded", "no setlists", "setlists failed", "failed"}
    /\ songs' = IF outcome = "failed" THEN songs ELSE fetchSongs(remoteSongs)
    /\ setlists' = IF outcome = "loaded" THEN fetchSetlists(remoteSetlists) ELSE <<>>
    /\ isLoading' = FALSE
    /\ error' = IF outcome = "failed" THEN "API call failed" ELSE ""
    /\ last' = IF outcome \in {"setlists failed", "failed"}
               THEN Fault("loadData", 0, "API call failed", "")
               ELSE Step("loadData", 0)
    /\ UNCHANGED <<remoteVars, detailVars, save, op, actions, callVars>>

----------------------------------------------------------------------------
\* SetlistsView: selecting a setlist mounts SetlistDetail, Back unmounts it.

\* handleSelect; the mounted component starts from the sorted store items and
\* its sync effect runs once.
handleSelect(id) ==
    /\ UserAction
    /\ ~isLoading
    /\ selectedSetlist = NoSetlist
    /\ FindById(setlists, id) # <<>>
    /\ selectedSetlist' = id
    /\ localItems' = SortByPosition(LatestItems(setlists, id))
    /\ prevItemsKeyRef' =
          IF ShouldSync(FALSE, <<>>, ItemsKey(setlists, id)) THEN ItemsKey(setlists, id) ELSE <<>>
    /\ hasUnsavedChanges' = FALSE
    /\ draggedItem' = <<>>
    /\ last' = Step("", 0)
    /\ UNCHANGED <<remoteVars, storeVars, save, op, callVars>>

\* handleBack: the component unmounts and its state is dropped; a save still in
\* flight belongs to the unmounted instance.
handleBack ==
    /\ UserAction
    /\ selectedSetlist # NoSetlist
    /\ selectedSetlist' = NoSetlist
    /\ localItems' = <<>>
    /\ prevItemsKeyRef' = <<>>
    /\ hasUnsavedChanges' = FALSE
    /\ draggedItem' = <<>>
    /\ save' = IF save.pc = "idle" THEN save ELSE [save EXCEPT !.detached = TRUE]
    /\ last' = Step("", 0)
    /\ UNCHANGED <<remoteVars, storeVars, op, callVars>>

----------------------------------------------------------------------------
\* SetlistDetail: local edits of the overlay (no remote call).

\* availableSongs: the songs of the store with no item in localItems.
availableSongs ==
    SelectSeq(songs, LAMBDA song : \A i \in 1..Len(localItems) : localItems[i].songId # song.id)

\* The items the list renders: those whose song the store knows.
Rendered(items) == SelectSeq(SortByPosition(items), LAMBDA it : HasSong(songs, it.songId))

\* handleAddSong: the new item's id is one more than the largest id of the
\* store's setlists and of localItems, its position one more than the largest.
AddedItemsByStoreIds(sls, items, songId) ==
    LET newItem == Item(MaxItemId(sls) + 1, songId, MaxPosition(items) + 1)
    IN  SortByPosition(Append(items, newItem))

AddedItems(sls, items, songId) ==
    LET newItem == Item(MaxIdOf(items, MaxItemId(sls)) + 1, songId, MaxPosition(items) + 1)
    IN  SortByPosition(Append(items, newItem))

handleAddSong(songId) ==
    /\ UserAction
    /\ selectedSetlist # NoSetlist
    /\ HasSong(availableSongs, songId)
    /\ Commit(setlists, TRUE, AddedItems(setlists, localItems, songId))
    /\ last' = Step("", 0)
    /\ UNCHANGED <<remoteVars, storeVars, selectedSetlist, draggedItem, save, op, callVars>>

\* handleRemoveSong: the item is filtered out and the rest renumbered.
RemovedItemsKeepingPositions(items, itemId) == SelectSeq(items, LAMBDA it : it.id # itemId)
RemovedItems(items, itemId) == Renumber(SelectSeq(items, LAMBDA it : it.id # itemId))

handleRemoveSong(itemId) ==
    /\ UserAction
    /\ selectedSetlist # NoSetlist
    /\ \E i \in 1..Len(Rendered(localItems)) : Rendered(localItems)[i].id = itemId
    /\ Commit(setlists, TRUE, RemovedItems(localItems, itemId))
    /\ last' = Step("", 0)
    /\ UNCHANGED <<remoteVars, storeVars, selectedSetlist, draggedItem, save, op, callVars>>

\* handleDragStart
handleDragStart(i) ==
    /\ UserAction
    /\ selectedSetlist # NoSetlist
    /\ draggedItem = <<>>
    /\ i \in 1..Len(Rendered(localItems))
    /\ draggedItem' = <<Rendered(localItems)[i]>>
    /\ last' = Step("", 0)
    /\ UNCHANGED <<remoteVars, storeVars, selectedSetlist, localItems, hasUnsavedChanges,
                   prevItemsKeyRef, save, op, callVars>>

\* items.splice(start, 1) with start = findIndex result (0 here for -1: JS then
\* removes the last element).
SpliceOut(items, idx) ==
    LET k == IF idx = 0 THEN Len(items) ELSE idx IN
    IF items = <<>> THEN <<>>
    ELSE SubSeq(items, 1, k - 1) \o SubSeq(items, k + 1, Len(items))

\* items.splice(start, 0, x): x is inserted before the element at index start,
\* at the end when start is past the end.
SpliceIn(items, idx, x) ==
    LET k == IF idx > Len(items) + 1 THEN Len(items) + 1 ELSE idx IN
    SubSeq(items, 1, k - 1) \o <<x>> \o SubSeq(items, k, Len(items))

\* handleDrop, the reordering: both indexes are taken before the removal.
DroppedItems(items, dragged, target) ==
    LET draggedIndex == FindIndex([k \in 1..Len(items) |-> items[k].id = dragged.id])
        targetIndex == FindIndex([k \in 1..Len(items) |-> items[k].id = target.id])
    IN  Renumber(SpliceIn(SpliceOut(items, draggedIndex), targetIndex, dragged))

handleDrop(i) ==
    /\ selectedSetlist # NoSetlist
    /\ i \in 1..Len(Rendered(localItems))
    /\ LET targetItem == Rendered(localItems)[i] IN
       IF draggedItem = <<>> \/ draggedItem[1].id = targetItem.id
       THEN UNCHANGED <<localItems, hasUnsavedChanges, prevItemsKeyRef>>
       ELSE Commit(setlists, TRUE, DroppedItems(localItems, draggedItem[1], targetItem))
    /\ draggedItem # <<>>
    /\ draggedItem' = <<>>
    /\ last' = Step("", 0)
    /\ UNCHANGED <<remoteVars, storeVars, selectedSetlist, save, op, actions, callVars>>

\* handleDragEnd without a drop
handleDragEnd ==
    /\ draggedItem # <<>>
    /\ draggedItem' = <<>>
    /\ last' = Step("", 0)
    /\ UNCHANGED <<remoteVars, storeVars, selectedSetlist, localItems, hasUnsavedChanges,
                   prevItemsKeyRef, save, op, actions, callVars>>

\* A Cancel that clears the flag and leaves localItems to the sync effect.
handleCancelLeavesItems ==
    /\ UserAction
    /\ selectedSetlist # NoSetlist
    /\ hasUnsavedChanges
    /\ Commit(setlists, FALSE, localItems)
    /\ last' = Step("handleCancelReorder", 0)
    /\ UNCHANGED <<remoteVars, storeVars, selectedSetlist, draggedItem, save, op, callVars>>

\* handleCancelReorder: back to the store's items, no remote call.
handleCancelReorder ==
    /\ UserAction
    /\ selectedSetlist # NoSetlist
    /\ hasUnsavedChanges
    /\ Commit(setlists, FALSE, SortByPosition(LatestItems(setlists, selectedSetlist)))
    /\ last' = Step("handleCancelReorder", 0)
    /\ UNCHANGED <<remoteVars, storeVars, selectedSetlist, draggedItem, save, op, callVars>>


----------------------------------------------------------------------------
\* Save of the overlay: handleSaveChanges -> reorderSetlistItems ->
\* syncSetlistItems, one step per await.

\* As ResolveSetlist, but by id alone.
ResolveSetlistByIdOnly(currentSetlists, sls, setlistId) == FindById(currentSetlists, setlistId)

\* reorderSetlistItems / addItemToSetlist: the setlist is looked up in the
\* fetched collection by id and, failing that, by the name the store has for
\* that id.
ResolveSetlist(currentSetlists, sls, setlistId) ==
    IF FindById(currentSetlists, setlistId) # <<>> THEN FindById(currentSetlists, setlistId)
    ELSE IF FindById(sls, setlistId) # <<>>
         THEN FindByName(currentSetlists, FindById(sls, setlistId)[1].name)
         ELSE <<>>

\* reorderSetlistItems: every fetched setlist with its items sorted by position.
WithSortedItems(sls) ==
    [i \in 1..Len(sls) |-> [sls[i] EXCEPT !.items = SortByPosition(sls[i].items)]]

\* The catch blocks: the store's error is set and the error rethrown,
\* handleSaveChanges alerts and leaves the overlay alone.  raised is the
\* error of the gateway call, "" when the operation itself threw.
SaveFails(raised, message) ==
    /\ error' = message
    /\ save' = NoSave
    /\ last' = Fault(save.pc, 0, raised, message)
    /\ UNCHANGED <<songs, setlists, isLoading, detailVars, remoteVars, callVars>>

\* handleSaveChanges up to the first await of reorderSetlistItems.
handleSaveChanges ==
    /\ UserAction
    /\ selectedSetlist # NoSetlist
    /\ hasUnsavedChanges
    /\ save.pc = "idle"
    /\ save' = [NoSave EXCEPT !.pc = "fetch", !.setlistId = selectedSetlist,
                              !.items = SortByPosition(localItems), !.known = setlists]
    /\ error' = ""
    /\ last' = Step("", 0)
    /\ UNCHANGED <<remoteVars, songs, setlists, isLoading, detailVars, op, callVars>>

\* reorderSetlistItems(setlistId, items) called by itself, up to its first
\* await, the fetch of the setlists; the id is not looked up in the store
\* before it.
reorderSetlistItems(setlistId, items) ==
    /\ UserAction
    /\ ~isLoading
    /\ save.pc = "idle"
    /\ save' = [NoSave EXCEPT !.pc = "fetch", !.setlistId = setlistId, !.items = items,
                              !.detached = TRUE, !.known = setlists]
    /\ error' = ""
    /\ last' = Step("", 0)
    /\ UNCHANGED <<remoteVars, songs, setlists, isLoading, detailVars, op, callVars>>

\* reorderSetlistItems after fetchSetlists: the setlist is resolved and the
\* sync_items request is posted.
SaveResolve(ok) ==
    /\ save.pc = "fetch"
    /\ LET currentSetlists == fetchSetlists(remoteSetlists)
           setlist == ResolveSetlist(currentSetlists, save.known, save.setlistId)
       IN  IF ~ok THEN SaveFails("API call failed", "API call failed")
           ELSE IF setlist = <<>> THEN SaveFails("", "Setlist not found after refetch")
           ELSE /\ save' = [save EXCEPT !.pc = "sync", !.known = <<>>,
                               !.body = SyncRequestBody(setlist[1].id, SortByPosition(save.items))]
                /\ last' = Step("", 0)
                /\ UNCHANGED <<storeVars, detailVars, remoteVars, callVars>>
    /\ UNCHANGED <<op, actions>>

\* The remote answers the sync_items request: it fails, replaces the rows, or
\* accepts the request and replaces the rows later.
SaveSynced(outcome) ==
    /\ save.pc = "sync"
    /\ outcome \in {"failed", "applied", "started"}
    /\ CASE outcome = "failed" -> SaveFails("API call failed", "API call failed")
         [] outcome = "applied" ->
              /\ remoteSetlists' = RemoteApplySync(remoteSetlists, save.body)
              /\ save' = [save EXCEPT !.pc = "refetch"]
              /\ last' = Step("", 0)
              /\ UNCHANGED <<remoteSongs, pendingSync, storeVars, detailVars, callVars>>
         [] outcome = "started" ->
              /\ pendingSync = <<>>
              /\ pendingSync' = <<save.body>>
              /\ save' = [save EXCEPT !.pc = "refetch"]
              /\ last' = Step("", 0)
              /\ UNCHANGED <<remoteSongs, remoteSetlists, storeVars, detailVars, callVars>>
    /\ UNCHANGED <<op, actions>>

\* reorderSetlistItems after the re-fetch (at most maxRetries more fetches when
\* the setlist is missing), then the end of handleSaveChanges: the store takes
\* the fetched setlists, the flag is cleared and the sync effect runs.
MaxRetries == 3

SaveRefetched(ok) ==
    /\ save.pc = "refetch"
    /\ LET refreshedSetlists == fetchSetlists(remoteSetlists)
           updatedSetlist == FindById(refreshedSetlists, save.body.setlistId)
       IN  IF ~ok THEN SaveFails("API call failed", "API call failed")
           ELSE IF updatedSetlist = <<>> /\ save.retryCount < MaxRetries
           THEN /\ save' = [save EXCEPT !.retryCount = @ + 1]
                /\ last' = Step("", 0)
                /\ UNCHANGED <<storeVars, detailVars, remoteVars, callVars>>
           ELSE /\ setlists' = WithSortedItems(refreshedSetlists)
                /\ IF save.detached
                     THEN StoreChanged(WithSortedItems(refreshedSetlists))
                     ELSE Commit(WithSortedItems(refreshedSetlists), FALSE, localItems)
                /\ save' = NoSave
                /\ last' = Step(IF save.detached THEN "reorderSetlistItems:done"
                                 ELSE "handleSaveChanges:done", save.body.setlistId)
                /\ UNCHANGED <<songs, isLoading, error, selectedSetlist, draggedItem, remoteVars, callVars>>
    /\ UNCHANGED <<op, actions>>

\* The remote completes an accepted sync_items request.
RemoteLands ==
    /\ pendingSync # <<>>
    /\ remoteSetlists' = RemoteApplySync(remoteSetlists, pendingSync[1])
    /\ pendingSync' = <<>>
    /\ last' = Step("", 0)
    /\ UNCHANGED <<remoteSongs, storeVars, detailVars, save, op, actions, callVars>>


----------------------------------------------------------------------------
\* The other operations of the store (state/AppContext.tsx), one in flight at
\* a time beside the save, one step per await.

CanStart == ~isLoading /\ op.kind = "none" /\ actions < MaxActions

\* The catch block of a store operation: the error is set and rethrown.
\* raised is the error of the gateway call, "" when the operation itself threw.
OpFailsSilently(raised, message) ==
    /\ op' = NoOp
    /\ last' = Fault(op.pc, 0, raised, message)
    /\ UNCHANGED <<songs, setlists, isLoading, error, detailVars, remoteVars, callVars>>

OpFails(raised, message) ==
    /\ error' = message
    /\ op' = NoOp
    /\ last' = Fault(op.pc, 0, raised, message)
    /\ UNCHANGED <<songs, setlists, isLoading, detailVars, remoteVars, callVars>>

\* deleteSong, the cascade: every setlist keeps the items of the other songs.
WithoutSong(sls, songId) ==
    [i \in 1..Len(sls) |->
        [sls[i] EXCEPT !.items = SelectSeq(sls[i].items, LAMBDA it : it.songId # songId)]]

\* deleteSong up to its await of n8nClient.deleteSong; the id is not looked
\* up in the store.
deleteSong(id) ==
    /\ CanStart
    /\ op' = [NoOp EXCEPT !.kind = "deleteSong", !.pc = "delete", !.a = id]
    /\ actions' = actions + 1
    /\ error' = ""
    /\ last' = Step("", 0)
    /\ UNCHANGED <<remoteVars, songs, setlists, isLoading, detailVars, save, callVars>>

\* n8nClient.deleteSong has answered: the remote has dropped the song row.
DeleteSongPosted(ok) ==
    /\ op.kind = "deleteSong" /\ op.pc = "delete"
    /\ IF ~ok THEN OpFails("API call failed", "API call failed")
       ELSE /\ remoteSongs' = SelectSeq(remoteSongs, LAMBDA row : row.id # op.a)
            /\ op' = [op EXCEPT !.pc = "fetchSongs"]
            /\ last' = Step("", 0)
            /\ UNCHANGED <<remoteSetlists, pendingSync, storeVars, detailVars, callVars>>
    /\ UNCHANGED <<save, actions>>

\* fetchSongs has answered: setSongs, then the cascade on the current setlists.
DeleteSongDone(ok) ==
    /\ op.kind = "deleteSong" /\ op.pc = "fetchSongs"
    /\ IF ~ok THEN OpFails("API call failed", "API call failed")
       ELSE /\ songs' = fetchSongs(remoteSongs)
            /\ setlists' = WithoutSong(setlists, op.a)
            /\ StoreChanged(WithoutSong(setlists, op.a))
            /\ op' = NoOp
            /\ last' = Step("deleteSong:done", op.a)
            /\ UNCHANGED <<isLoading, error, selectedSetlist, draggedItem, remoteVars, callVars>>
    /\ UNCHANGED <<save, actions>>

\* addItemToSetlist up to its first await, the fetch of the setlists; neither
\* id is looked up in the store before it.
addItemToSetlist(setlistId, songId) ==
    /\ CanStart
    /\ op' = [NoOp EXCEPT !.kind = "addItem", !.pc = "fetch", !.a = setlistId, !.b = songId,
                          !.known = setlists]
    /\ actions' = actions + 1
    /\ error' = ""
    /\ last' = Step("", 0)
    /\ UNCHANGED <<remoteVars, songs, setlists, isLoading, detailVars, save, callVars>>

\* addItemToSetlist: the item built from the fetched collection.
NewItemFor(currentSetlists, setlist, songId) ==
    Item(MaxItemId(currentSetlists) + 1, songId, MaxPosition(setlist.items) + 1)

\* fetchSetlists has answered: the setlist is resolved and add_item is posted.
AddItemResolve(ok) ==
    /\ op.kind = "addItem" /\ op.pc = "fetch"
    /\ LET currentSetlists == fetchSetlists(remoteSetlists)
           setlist == ResolveSetlist(currentSetlists, op.known, op.a)
       IN  IF ~ok THEN OpFails("API call failed", "API call failed")
           ELSE IF setlist = <<>> THEN OpFails("", "Setlist not found after refetch")
           ELSE /\ op' = [op EXCEPT !.pc = "post", !.known = <<>>, !.items = setlist[1].items,
                             !.body = [setlistId |-> setlist[1].id,
                                       item |-> NewItemFor(currentSetlists, setlist[1], op.b),
                                       mode |-> "add_item"]]
                /\ last' = Step("", 0)
                /\ UNCHANGED <<storeVars, detailVars, remoteVars, callVars>>
    /\ UNCHANGED <<save, actions>>

\* As WithItems, but the setlist keeps the items it has that are not among
\* the new ones.
WithItemsKeepingOthers(sls, idA, idB, items) ==
    [i \in 1..Len(sls) |->
        IF sls[i].id = idA \/ sls[i].id = idB
        THEN [sls[i] EXCEPT !.items = SortByPosition(items \o SelectSeq(sls[i].items,
                  LAMBDA it : \A k \in 1..Len(items) : items[k].id # it.id))]
        ELSE sls[i]]

\* addItemToSetlist, the local update: the setlist with the correct or the
\* given id takes the fetched items plus the new one, sorted.
WithItems(sls, idA, idB, items) ==
    [i \in 1..Len(sls) |->
        IF sls[i].id = idA \/ sls[i].id = idB THEN [sls[i] EXCEPT !.items = items] ELSE sls[i]]

\* The remote has answered add_item: the row is appended, local state updated.
AddItemPosted(ok) ==
    /\ op.kind = "addItem" /\ op.pc = "post"
    /\ IF ~ok THEN OpFails("API call failed", "API call failed")
       ELSE LET updatedItems == SortByPosition(Append(op.items, op.body.item))
                next == WithItems(setlists, op.body.setlistId, op.a, updatedItems)
            IN  /\ remoteSetlists' = RemoteApplyAdd(remoteSetlists, op.body.setlistId, op.body.item)
                /\ setlists' = next
                /\ StoreChanged(next)
                /\ op' = [op EXCEPT !.pc = "refetch"]
                /\ last' = Step("", 0)
                /\ UNCHANGED <<remoteSongs, pendingSync, songs, isLoading, error,
                               selectedSetlist, draggedItem, callVars>>
    /\ UNCHANGED <<save, actions>>

\* The re-fetch has answered; its failure is caught and not rethrown.
AddItemDone(ok) ==
    /\ op.kind = "addItem" /\ op.pc = "refetch"
    /\ IF ok
       THEN /\ setlists' = fetchSetlists(remoteSetlists)
            /\ StoreChanged(fetchSetlists(remoteSetlists))
            /\ last' = Step("addItemToSetlist:done", op.a)
       ELSE /\ last' = Fault("addItemToSetlist:done", op.a, "API call failed", "")
            /\ UNCHANGED <<setlists, localItems, hasUnsavedChanges, prevItemsKeyRef>>
    /\ op' = NoOp
    /\ UNCHANGED <<songs, isLoading, error, selectedSetlist, draggedItem, remoteVars,
                   save, actions, callVars>>


\* A store operation throws before its first await: the catch block sets the
\* error and rethrows, nothing is in flight.
ThrowsLocally(act, x, message) ==
    /\ error' = message
    /\ last' = Fault(act, x, "", message)
    /\ UNCHANGED op

\* removeItemFromSetlist up to its await of saveSetlist: without the setlist
\* in the store it throws, else the store's setlist without the item,
\* renumbered, is the payload.
removeItemFromSetlist(setlistId, itemId) ==
    /\ CanStart
    /\ IF FindById(setlists, setlistId) = <<>>
       THEN ThrowsLocally("removeItemFromSetlist:threw", setlistId, "Setlist not found")
       ELSE /\ op' = [NoOp EXCEPT !.kind = "removeItem", !.pc = "save", !.a = setlistId,
                                  !.b = itemId,
                                  !.items = RemovedItems(ItemsOf(setlists, setlistId), itemId)]
            /\ error' = ""
            /\ last' = Step("", 0)
    /\ actions' = actions + 1
    /\ UNCHANGED <<remoteVars, songs, setlists, isLoading, detailVars, save, callVars>>

\* saveSetlist, completeSetlist: the items of the answer when it carries
\* items, else those of the payload.  The request carries no items
\* (includeItems is false), so the remote's item rows stay as they are.
CompleteItems(answerItems, payloadItems) ==
    IF answerItems # <<>> THEN answerItems[1] ELSE payloadItems

\* saveSetlist has answered, with the setlist's item rows or without items;
\* after the acknowledgement "Workflow was started" it returns the payload,
\* which is stored like a saved setlist.
RemoveItemDone(answer) ==
    /\ op.kind = "removeItem" /\ op.pc = "save"
    /\ answer \in {"failed", "setlist", "setlist with items", "started"}
    /\ IF answer = "failed" THEN OpFails("API call failed", "API call failed")
       ELSE LET answerItems == IF answer = "setlist with items"
                               THEN <<ItemsOf(remoteSetlists, op.a)>> ELSE <<>>
                next == WithItems(setlists, op.a, op.a, CompleteItems(answerItems, op.items))
            IN  /\ setlists' = next
                /\ StoreChanged(next)
                /\ op' = NoOp
                /\ last' = Step(IF answer = "started" THEN "removeItemFromSetlist:done, not confirmed"
                                 ELSE "removeItemFromSetlist:done", op.a)
                /\ UNCHANGED <<songs, isLoading, error, selectedSetlist, draggedItem,
                               remoteVars, callVars>>
    /\ UNCHANGED <<save, actions>>

\* duplicateSetlistItems up to its first await: it throws without either
\* setlist in the store or without items to copy.
duplicateSetlistItems(fromSetlistId, toSetlistId) ==
    /\ CanStart
    /\ IF FindById(setlists, fromSetlistId) = <<>>
       THEN ThrowsLocally("duplicateSetlistItems:threw", fromSetlistId, "Source setlist not found")
       ELSE IF FindById(setlists, toSetlistId) = <<>>
       THEN ThrowsLocally("duplicateSetlistItems:threw", toSetlistId,
                          "Destination setlist not found")
       ELSE IF ItemsOf(setlists, fromSetlistId) = <<>>
       THEN ThrowsLocally("duplicateSetlistItems:threw", fromSetlistId,
                          "Source setlist has no items to duplicate")
       ELSE /\ op' = [NoOp EXCEPT !.kind = "duplicate", !.pc = "fetch", !.a = fromSetlistId,
                                  !.b = toSetlistId, !.known = setlists]
            /\ error' = ""
            /\ last' = Step("", 0)
    /\ actions' = actions + 1
    /\ UNCHANGED <<remoteVars, songs, setlists, isLoading, detailVars, save, callVars>>

\* duplicateSetlistItems: the destination's items followed by copies of the
\* source's items with new ids and positions.
DuplicatedItems(fromItems, existingItems, maxItemId) ==
    existingItems \o
    [i \in 1..Len(fromItems) |->
        Item(maxItemId + i, fromItems[i].songId, MaxPosition(existingItems) + i)]

\* fetchSetlists has answered: the items are built from the setlists the call
\* started with and sync_items is posted.
DuplicateResolve(ok) ==
    /\ op.kind = "duplicate" /\ op.pc = "fetch"
    /\ IF ~ok THEN OpFails("API call failed", "API call failed")
       ELSE LET allItems == DuplicatedItems(ItemsOf(op.known, op.a), ItemsOf(op.known, op.b),
                                            MaxItemId(fetchSetlists(remoteSetlists)))
            IN  /\ op' = [op EXCEPT !.pc = "sync", !.known = <<>>,
                                    !.body = SyncRequestBody(op.b, allItems)]
                /\ last' = Step("", 0)
                /\ UNCHANGED <<storeVars, detailVars, remoteVars, callVars>>
    /\ UNCHANGED <<save, actions>>

\* The remote answers the sync_items request.
DuplicateSynced(outcome) ==
    /\ op.kind = "duplicate" /\ op.pc = "sync"
    /\ outcome \in {"failed", "applied", "started"}
    /\ CASE outcome = "failed" -> OpFails("API call failed", "API call failed")
         [] outcome = "applied" ->
              /\ remoteSetlists' = RemoteApplySync(remoteSetlists, op.body)
              /\ op' = [op EXCEPT !.pc = "refetch"]
              /\ last' = Step("", 0)
              /\ UNCHANGED <<remoteSongs, pendingSync, storeVars, detailVars, callVars>>
         [] outcome = "started" ->
              /\ pendingSync = <<>>
              /\ pendingSync' = <<op.body>>
              /\ op' = [op EXCEPT !.pc = "refetch"]
              /\ last' = Step("", 0)
              /\ UNCHANGED <<remoteSongs, remoteSetlists, storeVars, detailVars, callVars>>
    /\ UNCHANGED <<save, actions>>

\* The re-fetch has answered: the store takes the fetched setlists as they are.
DuplicateDone(ok) ==
    /\ op.kind = "duplicate" /\ op.pc = "refetch"
    /\ IF ~ok THEN OpFails("API call failed", "API call failed")
       ELSE /\ setlists' = fetchSetlists(remoteSetlists)
            /\ StoreChanged(fetchSetlists(remoteSetlists))
            /\ op' = NoOp
            /\ last' = Step("duplicateSetlistItems:done", op.b)
            /\ UNCHANGED <<songs, isLoading, error, selectedSetlist, draggedItem, remoteVars, callVars>>
    /\ UNCHANGED <<save, actions>>

----------------------------------------------------------------------------
vars == <<remoteSongs, remoteSetlists, pendingSync, songs, setlists, isLoading, error,
          selectedSetlist, localItems, hasUnsavedChanges, prevItemsKeyRef, draggedItem,
          save, op, actions, last, syncItems, sent, songCall, API_BASE, gateway,
          creates, reply, normalized>>

SetlistIds == {1, 2}
ItemIds == {1, 3}

\* The items in the opposite order, renumbered from 0 as the caller does.
Reversed(items) ==
    [i \in 1..Len(items) |-> [items[Len(items) + 1 - i] EXCEPT !.position = i - 1]]

\* The displayed setlist with its overlay and Save, beside deleteSong and
\* addItemToSetlist as the operations whose refreshes reach the store; the
\* views offer the songs and setlists of the store.
Next ==
    \/ \E outcome \in {"loaded", "no setlists", "setlists failed", "failed"} : LoadData(outcome)
    \/ \E id \in SetlistIds : handleSelect(id)
    \/ handleBack
    \/ \E songId \in SongIds : handleAddSong(songId)
    \/ \E i \in 1..Len(localItems) : handleRemoveSong(localItems[i].id)
    \/ \E i \in 1..Len(localItems) : handleDragStart(i)
    \/ \E i \in 1..Len(localItems) : handleDrop(i)
    \/ handleDragEnd
    \/ handleCancelReorder
    \/ handleSaveChanges
    \/ \E ok \in BOOLEAN : SaveResolve(ok)
    \/ \E outcome \in {"failed", "applied", "started"} : SaveSynced(outcome)
    \/ \E ok \in BOOLEAN : SaveRefetched(ok)
    \/ RemoteLands
    \/ \E id \in SongIds : HasSong(songs, id) /\ deleteSong(id)
    \/ \E ok \in BOOLEAN : DeleteSongPosted(ok)
    \/ \E ok \in BOOLEAN : DeleteSongDone(ok)
    \/ \E sl \in SetlistIds, sg \in SongIds :
          FindById(setlists, sl) # <<>> /\ HasSong(songs, sg) /\ addItemToSetlist(sl, sg)
    \/ \E ok \in BOOLEAN : AddItemResolve(ok)
    \/ \E ok \in BOOLEAN : AddItemPosted(ok)
    \/ \E ok \in BOOLEAN : AddItemDone(ok)

Spec == Init /\ [][Next]_vars

\* App with the list of setlists beside the detail (App.tsx): handleSelectSetlist
\* may be clicked while a setlist is displayed.  SetlistDetail is rendered at
\* the same place without a key, so the mounted component keeps localItems,
\* hasUnsavedChanges, prevItemsKeyRef and draggedItem when its setlist prop
\* changes; the render is followed by its sync effect.
handleSelectSetlist(id) ==
    /\ UserAction
    /\ ~isLoading
    /\ FindById(setlists, id) # <<>>
    /\ id # selectedSetlist
    /\ selectedSetlist' = id
    /\ IF selectedSetlist = NoSetlist
       THEN /\ localItems' = SortByPosition(LatestItems(setlists, id))
            /\ prevItemsKeyRef' =
                  IF ShouldSync(FALSE, <<>>, ItemsKey(setlists, id)) THEN ItemsKey(setlists, id)
                  ELSE <<>>
            /\ hasUnsavedChanges' = FALSE
            /\ draggedItem' = <<>>
       ELSE /\ IF ShouldSync(hasUnsavedChanges, prevItemsKeyRef, ItemsKey(setlists, id))
                 THEN /\ localItems' = SortByPosition(LatestItems(setlists, id))
                      /\ prevItemsKeyRef' = ItemsKey(setlists, id)
                 ELSE UNCHANGED <<localItems, prevItemsKeyRef>>
            /\ UNCHANGED <<hasUnsavedChanges, draggedItem>>
    /\ last' = Step("", 0)
    /\ UNCHANGED <<remoteVars, storeVars, save, op, callVars>>

NextApp ==
    \/ \E outcome \in {"loaded", "no setlists", "setlists failed", "failed"} : LoadData(outcome)
    \/ \E id \in SetlistIds : handleSelectSetlist(id)
    \/ handleBack
    \/ \E songId \in SongIds : handleAddSong(songId)
    \/ \E i \in 1..Len(localItems) : handleRemoveSong(localItems[i].id)
    \/ \E i \in 1..Len(localItems) : handleDragStart(i)
    \/ \E i \in 1..Len(localItems) : handleDrop(i)
    \/ handleDragEnd
    \/ handleCancelReorder
    \/ handleSaveChanges
    \/ \E ok \in BOOLEAN : SaveResolve(ok)
    \/ \E outcome \in {"failed", "applied", "started"} : SaveSynced(outcome)
    \/ \E ok \in BOOLEAN : SaveRefetched(ok)
    \/ RemoteLands

SpecApp == Init /\ [][NextApp]_vars

\* The store's item operations without a displayed setlist.
NextStore ==
    \/ \E outcome \in {"loaded", "no setlists", "setlists failed", "failed"} : LoadData(outcome)
    \/ RemoteLands
    \/ \E sl \in SetlistIds : \E i \in 1..Len(ItemsOf(setlists, sl)) :
          removeItemFromSetlist(sl, ItemsOf(setlists, sl)[i].id)
    \/ \E answer \in {"failed", "setlist", "setlist with items", "started"} : RemoveItemDone(answer)
    \/ \E a \in SetlistIds, b \in SetlistIds :
          ItemsOf(setlists, a) # <<>> /\ FindById(setlists, b) # <<>> /\ duplicateSetlistItems(a, b)
    \/ \E ok \in BOOLEAN : DuplicateResolve(ok)
    \/ \E outcome \in {"failed", "applied", "started"} : DuplicateSynced(outcome)
    \/ \E ok \in BOOLEAN : DuplicateDone(ok)

SpecStore == Init /\ [][NextStore]_vars

\* The store's operations called with any id, in the store or not, with no
\* setlist displayed, by a caller that awaits each call before the next.
Awaited == op.kind = "none" /\ save.pc = "idle" /\ actions < MaxCalls

NextCalls ==
    \/ \E outcome \in {"loaded", "no setlists", "setlists failed", "failed"} : LoadData(outcome)
    \/ \E id \in SongIds : Awaited /\ deleteSong(id)
    \/ \E ok \in BOOLEAN : DeleteSongPosted(ok)
    \/ \E ok \in BOOLEAN : DeleteSongDone(ok)
    \/ \E sl \in SetlistIds, sg \in SongIds : Awaited /\ addItemToSetlist(sl, sg)
    \/ \E ok \in BOOLEAN : AddItemResolve(ok)
    \/ \E ok \in BOOLEAN : AddItemPosted(ok)
    \/ \E ok \in BOOLEAN : AddItemDone(ok)
    \/ \E sl \in SetlistIds, itemId \in ItemIds : Awaited /\ removeItemFromSetlist(sl, itemId)
    \/ \E answer \in {"failed", "setlist", "setlist with items", "started"} : RemoveItemDone(answer)
    \/ \E a \in SetlistIds, b \in SetlistIds : Awaited /\ duplicateSetlistItems(a, b)
    \/ \E ok \in BOOLEAN : DuplicateResolve(ok)
    \/ \E outcome \in {"failed", "applied", "started"} : DuplicateSynced(outcome)
    \/ \E ok \in BOOLEAN : DuplicateDone(ok)
    \/ \E sl \in SetlistIds :
          Awaited /\ reorderSetlistItems(sl, Reversed(ItemsOf(InitialSetlistRows, sl)))
    \/ \E ok \in BOOLEAN : SaveResolve(ok)
    \/ \E outcome \in {"failed", "applied", "started"} : SaveSynced(outcome)
    \/ \E ok \in BOOLEAN : SaveRefetched(ok)
    \/ RemoteLands

SpecCalls == Init /\ [][NextCalls]_vars

----------------------------------------------------------------------------
\* syncSetlistItems called on its own with any list of items.

\* The sequences over S of length at most n.
SeqsUpTo(S, n) == UNION {[1..k -> S] : k \in 0..n}

\* Items with positions that may repeat, leave gaps and come in any order.
AnyItems == {Item(id, songId, position) : id \in {1, 2}, songId \in {1, 2}, position \in {0, 1, 5}}

InitSync ==
    /\ InitApp
    /\ remoteSongs = InitialSongRows
    /\ syncItems \in SeqsUpTo(AnyItems, MaxLen)
    /\ sent = <<>>
    /\ songCall = NoSongCall
    /\ API_BASE = AllConfigured
    /\ gateway = NoCall
    /\ creates = NoCreates
    /\ reply = NoReply
    /\ normalized = NotNormalized

\* syncSetlistItems(setlistId, items): without the webhook URL it throws
\* before any request, else it posts the request body.
syncSetlistItems(setlistId, configured) ==
    /\ last.act = ""
    /\ sent' = IF configured THEN <<SyncRequestBody(setlistId, syncItems)>> ELSE <<>>
    /\ last' = Step(IF configured THEN "syncSetlistItems:posted" ELSE "syncSetlistItems:threw",
                     setlistId)
    /\ UNCHANGED <<remoteVars, storeVars, detailVars, save, op, actions, syncItems, songCall,
                   gatewayVars, createVars, normalizerVars>>

NextSync == \E setlistId \in SetlistIds, configured \in BOOLEAN : syncSetlistItems(setlistId, configured)

SpecSync == InitSync /\ [][NextSync]_vars

\* syncSetlistItems(setlistId, items) called again and again with the same
\* items, each call answered after the remote has replaced the item rows of
\* the setlist; sent holds the request bodies in the order of the calls.
syncSetlistItemsApplied(setlistId) ==
    /\ Len(sent) < MaxCalls
    /\ sent' = Append(sent, SyncRequestBody(setlistId, syncItems))
    /\ remoteSetlists' = RemoteApplySync(remoteSetlists, SyncRequestBody(setlistId, syncItems))
    /\ last' = Step("syncSetlistItems:applied", setlistId)
    /\ UNCHANGED <<remoteSongs, pendingSync, storeVars, detailVars, save, op, actions, syncItems,
                   songCall, gatewayVars, createVars, normalizerVars>>

NextResync == \E setlistId \in SetlistIds : syncSetlistItemsApplied(setlistId)

SpecResync == InitSync /\ [][NextResync]_vars

----------------------------------------------------------------------------
\* saveSong (api/n8nClient.ts) with its confirmation polling.

\* String.prototype.trim on the artist strings of the model.
Trim(str) == IF str = " " THEN "" ELSE str

\* song.artist && song.artist.trim() !== ''
HasArtist(artist) == artist # "" /\ Trim(artist) # ""

\* allSongs.find(p), hits[i] telling whether p holds of the i-th song: <<>>
\* stands for undefined
FindSong(allSongs, hits) ==
    LET i == FindIndex(hits) IN IF i = 0 THEN <<>> ELSE <<allSongs[i]>>

\* A match by title in which a song without artist matches any artist.
TitleArtistMatchLoose(s, song) ==
    s.title = song.title
        /\ (HasArtist(song.artist) /\ HasArtist(s.artist) => s.artist = song.artist)

\* The predicate of the title/artist search.
TitleArtistMatch(s, song) ==
    IF s.title # song.title THEN FALSE
    ELSE IF HasArtist(song.artist) /\ HasArtist(s.artist) THEN s.artist = song.artist
    ELSE IF ~HasArtist(song.artist) /\ ~HasArtist(s.artist) THEN TRUE
    ELSE FALSE

\* The search by id done for creates as well.
MatchByIdAnyMode(mode, song, allSongs) ==
    IF song.id # NoSong THEN FindSong(allSongs, [k \in 1..Len(allSongs) |-> allSongs[k].id = song.id]) ELSE <<>>

\* if (mode === 'update' && songIdToFind) updatedSong = allSongs.find(by id)
MatchById(mode, song, allSongs) ==
    IF mode = "update" /\ song.id # NoSong
    THEN FindSong(allSongs, [k \in 1..Len(allSongs) |-> allSongs[k].id = song.id])
    ELSE <<>>

\* if (!updatedSong && song.title) updatedSong = allSongs.find(title/artist)
MatchByTitleArtist(updatedSong, song, allSongs) ==
    IF updatedSong = <<>> /\ song.title # ""
    THEN FindSong(allSongs, [k \in 1..Len(allSongs) |-> TitleArtistMatch(allSongs[k], song)])
    ELSE updatedSong

\* const maxRetries = mode === 'create' ? 5 : 3
MaxRetriesCreate == 5
MaxRetriesUpdate == 3

\* The same number of polls whatever the mode.
SongMaxRetriesAlike(mode) == MaxRetriesCreate

SongMaxRetries(mode) == IF mode = "create" THEN MaxRetriesCreate ELSE MaxRetriesUpdate

\* A fallback song that leaves the proposed id out.
fallbackSongWithoutId(song) == Song(NoSong, song.title, song.artist)

\* The song returned when no poll has found it.
fallbackSong(song) == Song(song.id, song.title, song.artist)

\* The remote carries out a save request: a create appends a row under the
\* id the remote assigns, an update rewrites the rows with the song's id.
RemoteApplySong(rows, mode, song, assignedId) ==
    IF mode = "create" THEN Append(rows, Song(assignedId, song.title, song.artist))
    ELSE [i \in 1..Len(rows) |->
            IF rows[i].id = song.id THEN Song(song.id, song.title, song.artist) ELSE rows[i]]

\* The id the remote may assign when it does not keep the proposed one.
RemoteSongId == 42
Titles == {"T", "U"}
Artists == {"", " ", "X", "Y"}
AnySongRows == {Song(id, title, artist) : id \in {2, RemoteSongId}, title \in Titles, artist \in Artists}
SubmittedSongs == {Song(2, title, artist) : title \in Titles, artist \in Artists}

InitSave ==
    /\ InitApp
    /\ remoteSongs \in SeqsUpTo(AnySongRows, MaxRows)
    /\ syncItems = <<>>
    /\ sent = <<>>
    /\ songCall = NoSongCall
    /\ API_BASE = AllConfigured
    /\ gateway = NoCall
    /\ creates = NoCreates
    /\ reply = NoReply
    /\ normalized = NotNormalized

\* saveSong(song, explicitMode) up to the POST ("" is no explicit mode).
saveSong(song, explicitMode) ==
    /\ songCall.pc = "idle"
    /\ songCall' = [NoSongCall EXCEPT
          !.pc = "post",
          !.mode = IF explicitMode # "" THEN explicitMode
                   ELSE IF song.id # NoSong THEN "update" ELSE "create",
          !.song = song]
    /\ UNCHANGED <<remoteVars, storeVars, detailVars, save, op, actions, last, syncItems, sent,
                   gatewayVars, createVars, normalizerVars>>

\* completeSong: the fields of the answer, those of the input where the
\* answer has none.
completeSong(songData, song) ==
    Song(IF songData.id # NoSong THEN songData.id ELSE song.id,
         IF songData.title # "" THEN songData.title ELSE song.title,
         IF songData.artist # "" THEN songData.artist ELSE song.artist)

\* The remote answers the POST: the call fails, or the remote has written the
\* row and answers with it, or it answers "Workflow was started" and writes
\* the row later, if ever.
SaveSongPosted(answer, assignedId) ==
    /\ songCall.pc = "post"
    /\ answer \in {"failed", "song", "started"}
    /\ CASE answer = "failed" ->
              /\ assignedId = songCall.song.id
              /\ songCall' = [songCall EXCEPT !.pc = "threw", !.trips = @ + 1,
                                  !.error = "API call failed"]
              /\ UNCHANGED remoteSongs
         [] answer = "song" ->
              LET id == IF songCall.mode = "create" THEN assignedId ELSE songCall.song.id
                  songData == Song(id, songCall.song.title, songCall.song.artist)
              IN  /\ songCall.mode = "create" \/ assignedId = songCall.song.id
                  /\ remoteSongs' = RemoteApplySong(remoteSongs, songCall.mode, songCall.song, id)
                  /\ songCall' = [songCall EXCEPT !.pc = "returned", !.write = "landed",
                                      !.trips = @ + 1,
                                      !.result = <<completeSong(songData, songCall.song)>>]
         [] answer = "started" ->
              /\ assignedId = songCall.song.id
              /\ songCall' = [songCall EXCEPT !.pc = "wait", !.write = "pending", !.trips = @ + 1]
              /\ UNCHANGED remoteSongs
    /\ UNCHANGED <<remoteSetlists, pendingSync, storeVars, detailVars, save, op, actions, last,
                   syncItems, sent, gatewayVars, createVars, normalizerVars>>

\* The remote carries out the accepted request.
SongWriteLands(assignedId) ==
    /\ songCall.write = "pending"
    /\ songCall.pc = "wait"
    /\ songCall.mode = "create" \/ assignedId = songCall.song.id
    /\ remoteSongs' = RemoteApplySong(remoteSongs, songCall.mode, songCall.song, assignedId)
    /\ songCall' = [songCall EXCEPT !.write = "landed"]
    /\ UNCHANGED <<remoteSetlists, pendingSync, storeVars, detailVars, save, op, actions, last,
                   syncItems, sent, gatewayVars, createVars, normalizerVars>>

\* One pass of the polling loop: the delay, fetchSongs (one more request to
\* the remote), the search by id and by title/artist; the song found is returned, and after the last attempt
\* the fallback song is.
SaveSongPoll(ok) ==
    /\ songCall.pc = "wait"
    /\ songCall.attempt < SongMaxRetries(songCall.mode)
    /\ LET attempt == songCall.attempt + 1
           allSongs == fetchSongs(remoteSongs)
           byId == MatchById(songCall.mode, songCall.song, allSongs)
           updatedSong == MatchByTitleArtist(byId, songCall.song, allSongs)
           via == IF byId # <<>> THEN "id" ELSE IF updatedSong # <<>> THEN "title" ELSE ""
       IN  IF ~ok
           THEN songCall' = [songCall EXCEPT !.pc = "threw", !.attempt = attempt,
                                 !.trips = @ + 1, !.error = "API call failed"]
           ELSE songCall' = [songCall EXCEPT
                   !.attempt = attempt,
                   !.trips = @ + 1,
                   !.allSongs = allSongs,
                   !.updatedSong = updatedSong,
                   !.via = via,
                   !.pc = IF updatedSong # <<>> \/ attempt = SongMaxRetries(songCall.mode)
                          THEN "returned" ELSE "wait",
                   !.result = IF updatedSong # <<>> THEN updatedSong
                              ELSE IF attempt = SongMaxRetries(songCall.mode)
                                   THEN <<fallbackSong(songCall.song)>> ELSE <<>>]
    /\ UNCHANGED <<remoteVars, storeVars, detailVars, save, op, actions, last, syncItems, sent,
                   gatewayVars, createVars, normalizerVars>>

NextSave ==
    \/ \E song \in SubmittedSongs, explicitMode \in {"", "create"} : saveSong(song, explicitMode)
    \/ \E answer \in {"failed", "song", "started"}, assignedId \in {2, RemoteSongId} :
          SaveSongPosted(answer, assignedId)
    \/ \E assignedId \in {2, RemoteSongId} : SongWriteLands(assignedId)
    \/ \E ok \in BOOLEAN : SaveSongPoll(ok)

SpecSave == InitSave /\ [][NextSave]_vars

----------------------------------------------------------------------------
\* The functions of api/n8nClient.ts seen from the network: the URL each one
\* uses, the requests it issues and what it hands to its caller for each kind
\* of answer of the remote.

\* What the remote answers to a request: a failure status with an error text,
\* the "No item to return" failure of an empty sheet, a success that is not
\* JSON, a success announced as JSON that does not parse, the rows asked for
\* (or the row written), or the acknowledgement of an asynchronous workflow.
Answers == {"failed", "no item", "not json", "bad json", "rows", "started"}

NoData == [kind |-> "none", rows |-> <<>>]
EmptyObject == [kind |-> "object", rows |-> <<>>]

\* The HTTP response of the remote for an answer; rows is what the sheet holds.
Response(answer, rows) ==
    [ok |-> answer \notin {"failed", "no item"},
     errorText |-> IF answer = "no item" THEN "No item to return" ELSE "Internal Server Error",
     json |-> answer \in {"bad json", "rows", "started"},
     parses |-> answer \in {"rows", "started"},
     data |-> IF answer = "rows" THEN [kind |-> "rows", rows |-> rows]
              ELSE IF answer = "started" THEN [kind |-> "message", rows |-> <<>>]
              ELSE NoData]

\* `API call failed: ${status} ${statusText}. ${errorText}`
ApiCallFailed(errorText) ==
    IF errorText = "No item to return" THEN "API call failed: 500. No item to return"
    ELSE "API call failed: 500. Internal Server Error"

\* A test that takes every message for the one of an empty sheet.
IncludesAnything(message) == TRUE

\* apiErr.message.includes('No item to return')
IncludesNoItemToReturn(message) == message = ApiCallFailed("No item to return")

\* url.includes('your-n8n-webhook-url')
IncludesPlaceholder(url) == url = Placeholder

Threw(message, fetches) == [threw |-> TRUE, error |-> message, data |-> NoData, fetches |-> fetches]
Resolved(data) == [threw |-> FALSE, error |-> "", data |-> data, fetches |-> 1]

\* apiCall: throws without a URL before any request; else one request, whose
\* failure status or unparsable JSON body is thrown and whose body that is
\* not JSON is returned as {}.
apiCall(url, response) ==
    IF url = Unset THEN Threw("API URL is not configured", 0)
    ELSE IF ~response.ok THEN Threw(ApiCallFailed(response.errorText), 1)
    ELSE IF ~response.json THEN Resolved(EmptyObject)
    ELSE IF ~response.parses THEN Threw("Invalid JSON response from server", 1)
    ELSE Resolved(response.data)

\* crypto.randomUUID(): the id given to a row that carries none.
RandomUUID == 99

\* fetchSongs: the rows found in the response; an object that is not a
\* collection is taken for one row, which has neither id nor title.
SongRowsOf(data) ==
    IF data.kind = "rows" THEN data.rows ELSE <<Song(RandomUUID, "", "")>>

\* fetchSetlists: the rows found in the response, a lone object being one row.
SetlistRowsOf(data) ==
    IF data.kind = "rows" THEN data.rows
    ELSE <<[id |-> RandomUUID, name |-> "", items |-> <<>>]>>

\* The call as the caller and the network saw it.
Called(fn, url, answer, r, outcome, value) ==
    [fn |-> fn, url |-> url, answer |-> IF r.fetches = 0 THEN "" ELSE answer,
     fetches |-> r.fetches, outcome |-> outcome, error |-> r.error, value |-> value]

\* The outcome of a function that returns what apiCall resolved to, mapped.
Outcome(fn, url, answer, r, value) ==
    Called(fn, url, answer, r, IF r.threw THEN "threw" ELSE "returned", IF r.threw THEN <<>> ELSE value)

\* The functions keep no state of their own: one call is followed from each
\* environment.
GatewayStep ==
    /\ gateway = NoCall
    /\ UNCHANGED <<remoteVars, storeVars, detailVars, save, op, actions, last,
                   syncItems, sent, songCall, API_BASE, createVars, normalizerVars>>

\* fetchSongs()
n8nClient_fetchSongs(answer) ==
    /\ LET r == apiCall(API_BASE.GET_SONGS, Response(answer, remoteSongs))
       IN  gateway' = Outcome("fetchSongs", API_BASE.GET_SONGS, answer, r,
                              fetchSongs(SongRowsOf(r.data)))
    /\ GatewayStep

\* saveSong(song, mode) up to the answer of its POST: the song of the answer,
\* an error for an answer that holds none, or the polling of SaveSongPoll
\* after an acknowledgement.
n8nClient_saveSong(song, answer) ==
    /\ LET r == apiCall(API_BASE.SAVE_SONG, Response(answer, <<song>>))
       IN  gateway' =
              IF r.threw THEN Outcome("saveSong", API_BASE.SAVE_SONG, answer, r, <<>>)
              ELSE IF r.data.kind = "message"
                   THEN Called("saveSong", API_BASE.SAVE_SONG, answer, r, "confirming", <<>>)
              ELSE IF r.data.kind = "rows"
                   THEN Outcome("saveSong", API_BASE.SAVE_SONG, answer, r,
                                <<completeSong(r.data.rows[1], song)>>)
              ELSE Outcome("saveSong", API_BASE.SAVE_SONG, answer,
                           Threw("Invalid response format from server", 1), <<>>)
    /\ GatewayStep

\* deleteSong(id): posted to the SAVE_SONG webhook with mode "delete".
n8nClient_deleteSong(answer) ==
    /\ LET r == apiCall(API_BASE.SAVE_SONG, Response(answer, <<>>))
       IN  gateway' = Outcome("deleteSong", API_BASE.SAVE_SONG, answer, r, <<>>)
    /\ GatewayStep

\* fetchSetlists(): an empty collection without a URL and for the failure of
\* an empty sheet, every other error of apiCall rethrown.
n8nClient_fetchSetlists(answer) ==
    /\ LET url == API_BASE.GET_SETLISTS
           r == apiCall(url, Response(answer, remoteSetlists))
       IN  gateway' =
              IF url = Unset
              THEN Called("fetchSetlists", url, answer, Threw("", 0), "returned", <<>>)
              ELSE IF r.threw /\ IncludesNoItemToReturn(r.error)
                   THEN Called("fetchSetlists", url, answer, Threw("", 1), "returned", <<>>)
              ELSE Outcome("fetchSetlists", url, answer, r, fetchSetlists(SetlistRowsOf(r.data)))
    /\ GatewayStep

\* The check of the functions that write setlists: no URL or the placeholder.
NotConfigured(url) == url = Unset \/ IncludesPlaceholder(url)

\* addItemToSetlist(setlistId, item)
n8nClient_addItemToSetlist(answer) ==
    /\ LET url == API_BASE.SAVE_SETLIST_ITEM
           r == IF NotConfigured(url) THEN Threw("Setlist item save URL is not configured", 0)
                ELSE apiCall(url, Response(answer, <<>>))
       IN  gateway' = Outcome("addItemToSetlist", url, answer, r, <<>>)
    /\ GatewayStep

\* syncSetlistItems(setlistId, items): an acknowledgement is logged only.
n8nClient_syncSetlistItems(answer) ==
    /\ LET url == API_BASE.SAVE_SETLIST_ITEM
           r == IF NotConfigured(url) THEN Threw("Setlist item save URL is not configured", 0)
                ELSE apiCall(url, Response(answer, <<>>))
       IN  gateway' = Outcome("syncSetlistItems", url, answer, r, <<>>)
    /\ GatewayStep

\* saveSetlist(payload, mode): the setlist of the answer completed from the
\* payload, the payload itself after an acknowledgement, an error for an
\* answer that holds no setlist.
n8nClient_saveSetlist(payload, answer) ==
    /\ LET url == API_BASE.SAVE_SETLIST
           r == IF NotConfigured(url) THEN Threw("Setlist save URL is not configured", 0)
                ELSE apiCall(url, Response(answer, <<[payload EXCEPT !.items = <<>>]>>))
       IN  gateway' =
              IF r.threw THEN Outcome("saveSetlist", url, answer, r, <<>>)
              ELSE IF r.data.kind = "message"
                   THEN Outcome("saveSetlist", url, answer, r, <<payload>>)
              ELSE IF r.data.kind = "rows"
                   THEN Outcome("saveSetlist", url, answer, r,
                                <<[r.data.rows[1] EXCEPT !.items = CompleteItems(<<>>, payload.items)]>>)
              ELSE Outcome("saveSetlist", url, answer,
                           Threw("Invalid response format from server", 1), <<>>)
    /\ GatewayStep

\* deleteSetlist(id)
n8nClient_deleteSetlist(answer) ==
    /\ LET url == API_BASE.DELETE_SETLIST
           r == IF NotConfigured(url) THEN Threw("Setlist delete URL is not configured", 0)
                ELSE apiCall(url, Response(answer, <<>>))
       IN  gateway' = Outcome("deleteSetlist", url, answer, r, <<>>)
    /\ GatewayStep

\* Any environment: every URL unset, the placeholder, or a webhook.
InitGateway ==
    /\ InitApp
    /\ remoteSongs = InitialSongRows
    /\ syncItems = <<>>
    /\ sent = <<>>
    /\ songCall = NoSongCall
    /\ API_BASE \in [UrlKeys -> {Unset, Placeholder, Webhook}]
    /\ gateway = NoCall
    /\ creates = NoCreates
    /\ reply = NoReply
    /\ normalized = NotNormalized

NextGateway ==
    \/ \E answer \in Answers : n8nClient_fetchSongs(answer)
    \/ \E answer \in Answers : n8nClient_saveSong(Song(2, "T", "X"), answer)
    \/ \E answer \in Answers : n8nClient_deleteSong(answer)
    \/ \E answer \in Answers : n8nClient_fetchSetlists(answer)
    \/ \E answer \in Answers : n8nClient_addItemToSetlist(answer)
    \/ \E answer \in Answers : n8nClient_syncSetlistItems(answer)
    \/ \E answer \in Answers : n8nClient_saveSetlist(InitialSetlistRows[1], answer)
    \/ \E answer \in Answers : n8nClient_deleteSetlist(answer)

SpecGateway == InitGateway /\ [][NextGateway]_vars

----------------------------------------------------------------------------
\* The normalization of a reply (api/n8nClient.ts, fetchSongs and
\* fetchSetlists after apiCall has resolved).

\* A JSON value, and undefined for what a property access finds nothing at.
JNull == [null |-> TRUE]
JBool(b) == [bool |-> b]
JNum(n) == [num |-> n]
JStr(s) == [str |-> s]
JArr(elements) == [arr |-> elements]
JObj(fields) == [obj |-> fields]
Undefined == [undefined |-> TRUE]
NoFields == [k \in {} |-> JNull]

\* Array.isArray(j); typeof j === 'object' of a value that is not null;
\* typeof j === 'string'
IsArray(j) == "arr" \in DOMAIN j
IsObject(j) == "obj" \in DOMAIN j \/ "arr" \in DOMAIN j
IsString(j) == "str" \in DOMAIN j

\* A property access on null or undefined throws a TypeError.
Nullish(j) == "null" \in DOMAIN j \/ "undefined" \in DOMAIN j

\* typeof j is 'number', 'string' or 'boolean': the in operator throws on it.
Primitive(j) == "num" \in DOMAIN j \/ "str" \in DOMAIN j \/ "bool" \in DOMAIN j

\* ToBoolean of the conditions and of the || chains
Truthy(j) ==
    IF Nullish(j) THEN FALSE
    ELSE IF "num" \in DOMAIN j THEN j.num # 0
    ELSE IF "str" \in DOMAIN j THEN j.str # ""
    ELSE IF "bool" \in DOMAIN j THEN j.bool
    ELSE TRUE

\* key in item, of an object or an array
HasKey(j, key) == "obj" \in DOMAIN j /\ key \in DOMAIN j.obj

\* item.key, of a value that is neither null nor undefined
Get(j, key) == IF HasKey(j, key) THEN j.obj[key] ELSE Undefined

\* a || b
Either(a, b) == IF Truthy(a) THEN a ELSE b

\* The keys an object answered in place of an array may carry, as the
\* integer keys Object.values puts first, in ascending order.
IndexKeys == <<"0", "1", "2">>

\* keys.filter(k => !isNaN(Number(k))) finds a key
HasNumericKeys(j) == \E i \in 1..Len(IndexKeys) : HasKey(j, IndexKeys[i])

\* A set as a sequence, in an order of its own.
RECURSIVE SeqOfSet(_)
SeqOfSet(S) == IF S = {} THEN <<>> ELSE LET x == CHOOSE y \in S : TRUE IN <<x>> \o SeqOfSet(S \ {x})

\* Object.values(data): the values of the integer keys in ascending order,
\* then those of the other keys.
ObjectValues(j) ==
    LET indexed == SelectSeq(IndexKeys, LAMBDA k : HasKey(j, k))
        others == SeqOfSet(DOMAIN j.obj \ {IndexKeys[i] : i \in 1..Len(IndexKeys)})
    IN  [i \in 1..Len(indexed) |-> j.obj[indexed[i]]] \o [i \in 1..Len(others) |-> j.obj[others[i]]]

\* The characters of a string.
CharAt(s, i) == SubSeq(s, i, i)

\* s.includes(c), c one character
Includes(s, c) == \E i \in 1..Len(s) : CharAt(s, i) = c

\* s.split(c), c one character
RECURSIVE Split(_, _)
Split(s, c) ==
    IF ~Includes(s, c) THEN <<s>>
    ELSE LET i == CHOOSE k \in 1..Len(s) : CharAt(s, k) = c /\ \A m \in 1..(k - 1) : CharAt(s, m) # c
         IN  <<SubSeq(s, 1, i - 1)>> \o Split(SubSeq(s, i + 1, Len(s)), c)

\* s.padStart(n, c)
RECURSIVE padStart(_, _, _)
padStart(s, n, c) == IF Len(s) >= n THEN s ELSE padStart(c \o s, n, c)

\* The decimal digits; <<>> stands for NaN, <<n>> for the number n.
IsDigit(c) == \E d \in 0..9 : ToString(d) = c
DigitOf(c) == CHOOSE d \in 0..9 : ToString(d) = c
NaN == <<>>

\* The number of leading digits of s.
RECURSIVE LeadingDigits(_)
LeadingDigits(s) ==
    IF s = "" \/ ~IsDigit(CharAt(s, 1)) THEN 0 ELSE 1 + LeadingDigits(SubSeq(s, 2, Len(s)))

RECURSIVE DecimalValue(_, _)
DecimalValue(s, acc) ==
    IF s = "" THEN acc ELSE DecimalValue(SubSeq(s, 2, Len(s)), 10 * acc + DigitOf(CharAt(s, 1)))

\* parseInt(s, 10): an optional sign and the leading digits, NaN without a
\* digit.  (Leading white space, which parseInt skips, is not in the strings
\* of the model.)
parseInt(s) ==
    LET negative == s # "" /\ CharAt(s, 1) = "-"
        signed == s # "" /\ CharAt(s, 1) \in {"-", "+"}
        rest == IF signed THEN SubSeq(s, 2, Len(s)) ELSE s
        n == LeadingDigits(rest)
    IN  IF n = 0 THEN NaN
        ELSE <<(IF negative THEN -1 ELSE 1) * DecimalValue(SubSeq(rest, 1, n), 0)>>

\* String(v) of a truthy value; an array is its elements joined by commas.
RECURSIVE StringOf(_)
StringOf(j) ==
    IF "num" \in DOMAIN j THEN ToString(j.num)
    ELSE IF "str" \in DOMAIN j THEN j.str
    ELSE IF "bool" \in DOMAIN j THEN (IF j.bool THEN "true" ELSE "false")
    ELSE IF "arr" \in DOMAIN j
    THEN (IF j.arr = <<>> THEN ""
          ELSE IF Len(j.arr) = 1 THEN (IF Nullish(j.arr[1]) THEN "" ELSE StringOf(j.arr[1]))
          ELSE (IF Nullish(j.arr[1]) THEN "" ELSE StringOf(j.arr[1]))
                  \o "," \o StringOf(JArr(Tail(j.arr))))
    ELSE IF "obj" \in DOMAIN j THEN "[object Object]"
    ELSE IF "null" \in DOMAIN j THEN "null"
    ELSE "undefined"

\* crypto.randomUUID(): ids of one call differ by the index of the row.
randomUUID(index) == "uuid-" \o ToString(index)

\* What a function returns or throws.
Returned(fn, value) == [fn |-> fn, outcome |-> "returned", value |-> value]
ThrewTypeError(fn) == [fn |-> fn, outcome |-> "threw", value |-> <<>>]

\* fetchSongs: the rows found in the reply, which is neither null nor
\* undefined: data.songs, the array itself, the values of an object with
\* numeric keys, any other object as one row, nothing in a scalar.
SongsIn(data) ==
    IF Truthy(Get(data, "songs")) /\ IsArray(Get(data, "songs")) THEN Get(data, "songs").arr
    ELSE IF IsArray(data) THEN data.arr
    ELSE IF IsObject(data)
    THEN (IF HasNumericKeys(data) THEN ObjectValues(data) ELSE <<data>>)
    ELSE <<>>

\* fetchSongs, songs.map: the id is songid when the row has one, else id or
\* songId, as a string, and a random UUID when that is falsy.
MappedSong(item, index) ==
    LET songId == IF Get(item, "songid") # Undefined THEN Get(item, "songid")
                  ELSE Either(Get(item, "id"), Get(item, "songId"))
    IN  [id |-> IF Truthy(songId) THEN StringOf(songId) ELSE randomUUID(index),
         title |-> Either(Get(item, "title"), JStr("")),
         artist |-> Either(Get(item, "artist"), Undefined)]

\* fetchSongs once apiCall has resolved to data: data.songs of null and
\* item.songid of a null row throw a TypeError, which fetchSongs rethrows.
fetchSongsOf(data) ==
    IF Nullish(data) THEN ThrewTypeError("fetchSongs")
    ELSE LET rows == SongsIn(data)
         IN  IF \E i \in 1..Len(rows) : Nullish(rows[i]) THEN ThrewTypeError("fetchSongs")
             ELSE Returned("fetchSongs", [i \in 1..Len(rows) |-> MappedSong(rows[i], i - 1)])

\* fetchSetlists: the rows found in the reply, which is not null: of an array
\* the setlists of its first element, or the setlist of each element, or the
\* elements; data.setlists; the values of an object with numeric keys; the
\* setlist of an object, or the object as one row; nothing in a scalar.
SetlistsIn(data) ==
    IF IsArray(data)
    THEN (IF data.arr # <<>> /\ Truthy(Get(data.arr[1], "setlists"))
                /\ IsArray(Get(data.arr[1], "setlists"))
          THEN Get(data.arr[1], "setlists").arr
          ELSE IF data.arr # <<>> /\ Truthy(Get(data.arr[1], "setlist"))
          THEN [i \in 1..Len(data.arr) |-> Get(data.arr[i], "setlist")]
          ELSE data.arr)
    ELSE IF Truthy(Get(data, "setlists")) /\ IsArray(Get(data, "setlists"))
    THEN Get(data, "setlists").arr
    ELSE IF IsObject(data)
    THEN (IF HasNumericKeys(data) THEN ObjectValues(data)
          ELSE IF Truthy(Get(data, "setlist")) THEN <<Get(data, "setlist")>>
          ELSE <<data>>)
    ELSE <<>>

\* The property accesses of SetlistsIn that throw: data.setlists of null,
\* data[0].setlists and item.setlist of a null element.
SetlistsInThrows(data) ==
    \/ Nullish(data)
    \/ IsArray(data) /\ data.arr # <<>> /\ Nullish(data.arr[1])
    \/ /\ IsArray(data) /\ data.arr # <<>>
       /\ ~(Truthy(Get(data.arr[1], "setlists")) /\ IsArray(Get(data.arr[1], "setlists")))
       /\ Truthy(Get(data.arr[1], "setlist"))
       /\ \E i \in 1..Len(data.arr) : Nullish(data.arr[i])

\* The date of a row that is a string: month/day/year becomes
\* year-month-day with two digits for month and day; a part the string does
\* not have is undefined, "undefined" in the template.
formattedDate(date) ==
    IF Includes(date, "/")
    THEN LET parts == Split(date, "/")
             year == IF Len(parts) >= 3 THEN parts[3] ELSE "undefined"
         IN  year \o "-" \o padStart(parts[1], 2, "0") \o "-" \o padStart(parts[2], 2, "0")
    ELSE date

\* item.date && item.date.includes('/') throws when the date is truthy and
\* has no includes method: a number, true, an object.
DateThrows(date) == Truthy(date) /\ ~IsString(date) /\ ~IsArray(date)

\* date: formattedDate || undefined
DateOf(date) ==
    IF ~Truthy(date) THEN Undefined
    ELSE IF IsString(date) THEN JStr(formattedDate(date.str))
    ELSE date

\* The song reference looked for under three of its names.
SongReferenceOfThree(it) ==
    Either(Get(it, "songId"), Either(Get(it, "song_id"), Get(it, "songID")))

\* The song reference of an item row under its four names.
SongReference(it) ==
    Either(Get(it, "songId"), Either(Get(it, "song_id"), Either(Get(it, "songID"), Get(it, "SongId"))))

\* position: the number, or parseInt of anything else, 0 for NaN.
PositionOf(position) ==
    IF "num" \in DOMAIN position THEN position.num
    ELSE LET parsed == parseInt(StringOf(position)) IN IF parsed = NaN THEN 0 ELSE parsed[1]

\* item.items.filter(...).map(...): the items with a song reference.
MappedItems(rowItems) ==
    LET kept == SelectSeq(rowItems, LAMBDA it : Truthy(SongReference(it)))
    IN  [i \in 1..Len(kept) |->
            [id |-> IF Truthy(Get(kept[i], "id")) THEN StringOf(Get(kept[i], "id")) ELSE randomUUID(i - 1),
             songId |-> StringOf(SongReference(kept[i])),
             position |-> PositionOf(Get(kept[i], "position"))]]

\* The setlist's own id under its four names, else id.
SetlistIdValue(item) ==
    IF HasKey(item, "setlistId") THEN Get(item, "setlistId")
    ELSE IF HasKey(item, "setlist_id") THEN Get(item, "setlist_id")
    ELSE IF HasKey(item, "setlistID") THEN Get(item, "setlistID")
    ELSE IF HasKey(item, "SetlistId") THEN Get(item, "SetlistId")
    ELSE Get(item, "id")

\* fetchSetlists, setlists.map on a row.
MappedSetlist(item, index) ==
    [id |-> IF Truthy(SetlistIdValue(item)) THEN StringOf(SetlistIdValue(item))
            ELSE randomUUID(index),
     name |-> Either(Get(item, "name"), JStr("")),
     date |-> DateOf(Get(item, "date")),
     items |-> IF IsArray(Get(item, "items")) THEN MappedItems(Get(item, "items").arr) ELSE <<>>]

\* What throws in the mapping of a row: item.date of null, the date without
\* includes, the in operator on a primitive, it.songId of a null item row.
MappedSetlistThrows(item) ==
    \/ Nullish(item)
    \/ DateThrows(Get(item, "date"))
    \/ Primitive(item)
    \/ IsArray(Get(item, "items"))
          /\ \E i \in 1..Len(Get(item, "items").arr) : Nullish(Get(item, "items").arr[i])

\* fetchSetlists once apiCall has resolved to data.
fetchSetlistsOf(data) ==
    IF SetlistsInThrows(data) THEN ThrewTypeError("fetchSetlists")
    ELSE LET rows == SetlistsIn(data)
         IN  IF \E i \in 1..Len(rows) : MappedSetlistThrows(rows[i])
             THEN ThrewTypeError("fetchSetlists")
             ELSE Returned("fetchSetlists",
                           [i \in 1..Len(rows) |-> MappedSetlist(rows[i], i - 1)])

\* The replies of the model.

\* Song rows as the remote's sheet has them: id as a number or as a string,
\* with or without an artist, or with songid beside the row's id.
SongRows ==
    { JObj([id |-> JNum(1), title |-> JStr("A")]),
      JObj([id |-> JStr("2"), title |-> JStr("B"), artist |-> JStr("X")]),
      JObj([songid |-> JNum(3), id |-> JNum(7), title |-> JStr("C")]) }

\* The object whose keys are the indexes of the rows, from "0".
Indexed(rows) ==
    JObj([k \in {IndexKeys[i] : i \in 1..Len(rows)} |->
             rows[CHOOSE i \in 1..Len(rows) : IndexKeys[i] = k]])

\* The shapes a collection of rows is answered in: under the wrapper key, as
\* an array, as an array of one wrapper with the collection, as an array of
\* wrappers with one row each, as an object keyed "0", "1", ..., and one row
\* as a bare object.
Shapes == {"wrapper", "array", "wrapped collection", "wrapped records", "indexed", "object"}

ShapedSongs(rows, shape) ==
    CASE shape = "wrapper" -> JObj([songs |-> JArr(rows)])
      [] shape = "array" -> JArr(rows)
      [] shape = "wrapped collection" -> JArr(<<JObj([success |-> JBool(TRUE), songs |-> JArr(rows)])>>)
      [] shape = "wrapped records" ->
            JArr([i \in 1..Len(rows) |-> JObj([success |-> JBool(TRUE), song |-> rows[i]])])
      [] shape = "indexed" -> Indexed(rows)
      [] shape = "object" -> rows[1]

ShapedSetlists(rows, shape) ==
    CASE shape = "wrapper" -> JObj([setlists |-> JArr(rows)])
      [] shape = "array" -> JArr(rows)
      [] shape = "wrapped collection" ->
            JArr(<<JObj([success |-> JBool(TRUE), setlists |-> JArr(rows)])>>)
      [] shape = "wrapped records" ->
            JArr([i \in 1..Len(rows) |-> JObj([success |-> JBool(TRUE), setlist |-> rows[i]])])
      [] shape = "indexed" -> Indexed(rows)
      [] shape = "object" -> rows[1]

\* A reply: the rows it stands for, its shape and the JSON value.
Reply(entity, rows, shape, data) == [entity |-> entity, of |-> rows, shape |-> shape, data |-> data]

SongReplies ==
    { Reply("songs", rows, shape, ShapedSongs(rows, shape)) :
        <<rows, shape>> \in { rs \in SeqsUpTo(SongRows, MaxLen) \X Shapes :
                                 rs[2] = "object" => Len(rs[1]) = 1 } }

\* Item rows: the song reference under each of its four names, as a number
\* or a string, and without any, or with an empty one.
ItemRows ==
    { JObj([id |-> JNum(1), songId |-> JNum(1), position |-> JNum(0)]),
      JObj([id |-> JNum(2), song_id |-> JStr("2"), position |-> JStr("1")]),
      JObj([id |-> JNum(3), songID |-> JNum(3), position |-> JNum(2)]),
      JObj([id |-> JNum(4), SongId |-> JNum(1)]),
      JObj([id |-> JNum(5), position |-> JNum(1)]),
      JObj([id |-> JNum(6), songId |-> JNull, song_id |-> JStr(""), position |-> JNum(0)]) }

\* The dates of the rows.
DateStrings == {"12/02/2025", "2025-12-02", "not-a-date", "1/2/2025", "1/2", "12/02-2025", "20251202"}

SetlistRowsWith(itemRows) ==
    { JObj([setlistId |-> JNum(1), id |-> JNum(5), name |-> JStr("S"), items |-> JArr(itemRows)]) }
    \cup { JObj([id |-> JNum(2), name |-> JStr("T"), date |-> JStr(d), items |-> JArr(itemRows)]) :
              d \in DateStrings }

SetlistReplies ==
    { Reply("setlists", <<row>>, "array", JArr(<<row>>)) :
         row \in UNION { SetlistRowsWith(itemRows) : itemRows \in SeqsUpTo(ItemRows, MaxLen) } }
    \cup { Reply("setlists", rows, shape, ShapedSetlists(rows, shape)) :
             <<rows, shape>> \in { rs \in SeqsUpTo(SetlistRowsWith(<<>>), 1) \X Shapes :
                                      rs[2] = "object" => Len(rs[1]) = 1 } }

\* Other JSON values a successful read may be answered with: null, scalars,
\* arrays of null or of scalars, objects of other shapes, rows whose fields
\* have other types.
OtherValues ==
    { JNull, JNum(5), JStr("ok"), JBool(TRUE), JArr(<<>>), JArr(<<JNull>>), JArr(<<JNum(1)>>),
      JArr(<<JStr("s")>>), JArr(<<JArr(<<>>)>>), JObj(NoFields),
      JObj([message |-> JStr("Workflow was started")]),
      JObj([songs |-> JStr("x")]), JObj([setlists |-> JNull]), JObj([songs |-> JArr(<<JNull>>)]),
      JObj([id |-> JArr(<<JNum(1), JNum(2)>>), title |-> JNum(3)]),
      JObj([id |-> JNum(1), name |-> JNum(1), date |-> JNum(20251202)]),
      JObj([id |-> JNum(1), date |-> JBool(TRUE)]),
      JObj([id |-> JNum(1), date |-> JNull, items |-> JStr("x")]),
      JObj([id |-> JNum(1), items |-> JArr(<<JNull>>)]),
      JObj([id |-> JNum(1), items |-> JArr(<<JNum(1), JStr("s")>>)]) }

OtherReplies == { Reply("any", <<>>, "", data) : data \in OtherValues }

InitNormalizer ==
    /\ InitApp
    /\ remoteSongs = InitialSongRows
    /\ syncItems = <<>>
    /\ sent = <<>>
    /\ songCall = NoSongCall
    /\ API_BASE = AllConfigured
    /\ gateway = NoCall
    /\ creates = NoCreates
    /\ reply \in SongReplies \cup SetlistReplies \cup OtherReplies
    /\ normalized = NotNormalized

NormalizerStep ==
    /\ normalized = NotNormalized
    /\ UNCHANGED <<remoteVars, storeVars, detailVars, save, op, actions, last,
                   syncItems, sent, songCall, gatewayVars, createVars, reply>>

\* fetchSongs() whose apiCall resolved to the reply.
NormalizeSongs ==
    /\ reply.entity \in {"songs", "any"}
    /\ normalized' = fetchSongsOf(reply.data)
    /\ NormalizerStep

\* fetchSetlists() whose apiCall resolved to the reply.
NormalizeSetlists ==
    /\ reply.entity \in {"setlists", "any"}
    /\ normalized' = fetchSetlistsOf(reply.data)
    /\ NormalizerStep

NextNormalizer == NormalizeSongs \/ NormalizeSetlists

SpecNormalizer == InitNormalizer /\ [][NextNormalizer]_vars

----------------------------------------------------------------------------
\* The create operations of the store (state/AppContext.tsx): addSong,
\* addSetlist and addItemToSetlist, each called by any of the callers, one
\* step per await.  The ids of the store are the numbers their strings spell.

\* The variables no create operation touches.
otherVars == <<pendingSync, isLoading, selectedSetlist, draggedItem, save, op,
               syncItems, sent, songCall, gatewayVars, normalizerVars>>

\* song.id / setlist.id of every entity, as the strings they are.
IdStrings(entities) == [i \in 1..Len(entities) |-> ToString(entities[i].id)]

\* item.id of every item of every setlist.
RECURSIVE ItemIdStrings(_)
ItemIdStrings(sls) ==
    IF sls = <<>> THEN <<>> ELSE IdStrings(Head(sls).items) \o ItemIdStrings(Tail(sls))

\* let maxId = 0; forEach: const n = parseInt(id, 10);
\* if (!isNaN(n) && n > maxId) maxId = n
RECURSIVE MaxParsedFrom(_, _)
MaxParsedFrom(ids, maxId) ==
    IF ids = <<>> THEN maxId
    ELSE LET n == parseInt(Head(ids))
         IN  MaxParsedFrom(Tail(ids), IF n # NaN /\ n[1] > maxId THEN n[1] ELSE maxId)

\* As MaxParsedId, but the number of ids scanned.
MaxParsedIdByCount(ids) == Len(ids)

MaxParsedId(ids) == MaxParsedFrom(ids, 0)

\* const newId = String(maxId + 1)
ProposedId(ids) == ToString(MaxParsedId(ids) + 1)

\* The id of the store's model that a proposed id spells.
IdOf(id) == parseInt(id)[1]

\* As Proposing, but the ids other calls have proposed and not yet seen
\* confirmed are scanned as well.
ProposingReserved(kind, pc, ids, name) ==
    LET reserved == SeqOfSet({creates[c].id : c \in {k \in Callers : creates[k].id # ""}})
    IN  [NoCreate EXCEPT !.kind = kind, !.pc = pc, !.scanned = ids,
                         !.id = ProposedId(ids \o reserved), !.name = name]

\* A create call that has scanned ids and proposes the next one.
Proposing(kind, pc, ids, name) ==
    [NoCreate EXCEPT !.kind = kind, !.pc = pc, !.scanned = ids, !.id = ProposedId(ids),
                     !.name = name]

\* The catch block of a create operation: the error is set and rethrown.
CreateFails(c, raised, message) ==
    /\ error' = message
    /\ creates' = [creates EXCEPT ![c] = NoCreate]
    /\ last' = Fault(creates[c].pc, 0, raised, message)
    /\ UNCHANGED <<remoteVars, songs, setlists, localItems, hasUnsavedChanges, prevItemsKeyRef,
                   actions>>

\* A create operation may be called: the application has loaded, the caller
\* is in no call.
CanCreate(c) == ~isLoading /\ creates[c].kind = "none" /\ actions < MaxCalls

\* addSong up to its first await: the fetch when the store has no songs, else
\* saveSong with the id proposed from the store's songs.
addSong(c, title) ==
    /\ CanCreate(c)
    /\ creates' = [creates EXCEPT ![c] =
                       IF Len(songs) > 0 THEN Proposing("addSong", "save", IdStrings(songs), title)
                       ELSE [NoCreate EXCEPT !.kind = "addSong", !.pc = "fetch", !.name = title]]
    /\ actions' = actions + 1
    /\ error' = ""
    /\ last' = Step("", 0)
    /\ UNCHANGED <<remoteVars, songs, setlists, localItems, hasUnsavedChanges, prevItemsKeyRef>>
    /\ UNCHANGED otherVars

\* addSong, fetchSongs has answered: the id is proposed from the fetched songs.
AddSongFetched(c, ok) ==
    /\ creates[c].kind = "addSong" /\ creates[c].pc = "fetch"
    /\ IF ~ok THEN CreateFails(c, "API call failed", "API call failed")
       ELSE /\ creates' = [creates EXCEPT ![c] =
                  Proposing("addSong", "save", IdStrings(fetchSongs(remoteSongs)), creates[c].name)]
            /\ last' = Step("", 0)
            /\ UNCHANGED <<remoteVars, songs, setlists, error, localItems, hasUnsavedChanges,
                           prevItemsKeyRef, actions>>
    /\ UNCHANGED otherVars

\* addSong, saveSong(newSong, 'create') has answered: the remote has appended
\* the row with the id sent.
AddSongSaved(c, ok) ==
    /\ creates[c].kind = "addSong" /\ creates[c].pc = "save"
    /\ IF ~ok THEN CreateFails(c, "API call failed", "API call failed")
       ELSE /\ remoteSongs' = Append(remoteSongs, Song(IdOf(creates[c].id), creates[c].name, ""))
            /\ creates' = [creates EXCEPT ![c].pc = "refetch"]
            /\ last' = Step("", 0)
            /\ UNCHANGED <<remoteSetlists, songs, setlists, error, localItems, hasUnsavedChanges,
                           prevItemsKeyRef, actions>>
    /\ UNCHANGED otherVars

\* addSong, the re-fetch has answered: setSongs(refreshedSongs).
AddSongDone(c, ok) ==
    /\ creates[c].kind = "addSong" /\ creates[c].pc = "refetch"
    /\ IF ~ok THEN CreateFails(c, "API call failed", "API call failed")
       ELSE /\ songs' = fetchSongs(remoteSongs)
            /\ creates' = [creates EXCEPT ![c] = NoCreate]
            /\ last' = Step("addSong:done", IdOf(creates[c].id))
            /\ UNCHANGED <<remoteVars, setlists, error, localItems, hasUnsavedChanges,
                           prevItemsKeyRef, actions>>
    /\ UNCHANGED otherVars

\* addSetlist up to its first await: the fetch when the store has no
\* setlists, else saveSetlist with the id proposed from the store's setlists.
addSetlist(c, name) ==
    /\ CanCreate(c)
    /\ creates' = [creates EXCEPT ![c] =
                       IF Len(setlists) = 0
                       THEN [NoCreate EXCEPT !.kind = "addSetlist", !.pc = "fetch", !.name = name]
                       ELSE Proposing("addSetlist", "save", IdStrings(setlists), name)]
    /\ actions' = actions + 1
    /\ error' = ""
    /\ last' = Step("", 0)
    /\ UNCHANGED <<remoteVars, songs, setlists, localItems, hasUnsavedChanges, prevItemsKeyRef>>
    /\ UNCHANGED otherVars

\* addSetlist, fetchSetlists has answered; its failure is caught and the id
\* proposed from no setlists.
AddSetlistFetched(c, ok) ==
    /\ creates[c].kind = "addSetlist" /\ creates[c].pc = "fetch"
    /\ creates' = [creates EXCEPT ![c] =
           Proposing("addSetlist", "save",
                     IF ok THEN IdStrings(fetchSetlists(remoteSetlists)) ELSE <<>>, creates[c].name)]
    /\ last' = IF ok THEN Step("", 0) ELSE Fault("", 0, "API call failed", "")
    /\ UNCHANGED <<remoteVars, songs, setlists, error, localItems, hasUnsavedChanges,
                   prevItemsKeyRef, actions>>
    /\ UNCHANGED otherVars

\* The newSetlist of a call.
NewSetlist(create) == [id |-> IdOf(create.id), name |-> create.name, items |-> <<>>]

\* The id the remote gives a row when it does not keep the id sent: one no
\* row has.
RowId(rows) == MaxParsedId(IdStrings(rows)) + Len(rows) + 1

\* addSetlist, saveSetlist(newSetlist, 'create', false) has answered: the
\* remote has appended the row, under the id sent or under an id of its own.
AddSetlistSaved(c, answer) ==
    /\ creates[c].kind = "addSetlist" /\ creates[c].pc = "save"
    /\ answer \in {"failed", "saved", "saved under another id"}
    /\ IF answer = "failed" THEN CreateFails(c, "API call failed", "API call failed")
       ELSE /\ remoteSetlists' = Append(remoteSetlists,
                   IF answer = "saved" THEN NewSetlist(creates[c])
                   ELSE [NewSetlist(creates[c]) EXCEPT !.id = RowId(remoteSetlists)])
            /\ creates' = [creates EXCEPT ![c].pc = "refetch"]
            /\ last' = Step("", 0)
            /\ UNCHANGED <<remoteSongs, pendingSync, songs, setlists, error, localItems,
                           hasUnsavedChanges, prevItemsKeyRef, actions>>
    /\ UNCHANGED otherVars

\* addSetlist, the re-fetch has answered: setSetlists(refreshedSetlists), or,
\* the failure caught, newSetlist appended to the store's setlists.
AddSetlistDone(c, ok) ==
    /\ creates[c].kind = "addSetlist" /\ creates[c].pc = "refetch"
    /\ LET next == IF ok THEN fetchSetlists(remoteSetlists)
                   ELSE Append(setlists, NewSetlist(creates[c]))
       IN  /\ setlists' = next
           /\ StoreChanged(next)
    /\ creates' = [creates EXCEPT ![c] = NoCreate]
    /\ last' = IF ok THEN Step("addSetlist:done", IdOf(creates[c].id))
               ELSE Fault("addSetlist:done", IdOf(creates[c].id), "API call failed", "")
    /\ UNCHANGED <<remoteVars, songs, error, actions>>
    /\ UNCHANGED otherVars

\* addItemToSetlist called by a caller, up to its first await, the fetch of
\* the setlists.
addItemToSetlistBy(c, setlistId, songId) ==
    /\ CanCreate(c)
    /\ creates' = [creates EXCEPT ![c] =
           [NoCreate EXCEPT !.kind = "addItem", !.pc = "fetch", !.setlistId = setlistId,
                            !.songId = songId, !.known = setlists]]
    /\ actions' = actions + 1
    /\ error' = ""
    /\ last' = Step("", 0)
    /\ UNCHANGED <<remoteVars, songs, setlists, localItems, hasUnsavedChanges, prevItemsKeyRef>>
    /\ UNCHANGED otherVars

\* fetchSetlists has answered: the setlist is resolved, the item built with
\* the id proposed from every item of every fetched setlist, add_item posted.
AddItemResolvedBy(c, ok) ==
    /\ creates[c].kind = "addItem" /\ creates[c].pc = "fetch"
    /\ LET currentSetlists == fetchSetlists(remoteSetlists)
           setlist == ResolveSetlist(currentSetlists, creates[c].known, creates[c].setlistId)
           ids == ItemIdStrings(currentSetlists)
       IN  IF ~ok THEN CreateFails(c, "API call failed", "API call failed")
           ELSE IF setlist = <<>> THEN CreateFails(c, "", "Setlist not found after refetch")
           ELSE /\ creates' = [creates EXCEPT ![c] =
                      [@ EXCEPT !.pc = "post", !.known = <<>>, !.scanned = ids,
                                !.id = ProposedId(ids),
                                !.items = setlist[1].items,
                                !.body = [setlistId |-> setlist[1].id,
                                          item |-> Item(IdOf(ProposedId(ids)), creates[c].songId,
                                                        MaxPosition(setlist[1].items) + 1),
                                          mode |-> "add_item"]]]
                /\ last' = Step("", 0)
                /\ UNCHANGED <<remoteVars, songs, setlists, error, localItems, hasUnsavedChanges,
                               prevItemsKeyRef, actions>>
    /\ UNCHANGED otherVars

\* The remote has answered add_item: the row is appended, local state updated.
AddItemPostedBy(c, ok) ==
    /\ creates[c].kind = "addItem" /\ creates[c].pc = "post"
    /\ IF ~ok THEN CreateFails(c, "API call failed", "API call failed")
       ELSE LET updatedItems == SortByPosition(Append(creates[c].items, creates[c].body.item))
                next == WithItems(setlists, creates[c].body.setlistId, creates[c].setlistId,
                                  updatedItems)
            IN  /\ remoteSetlists' = RemoteApplyAdd(remoteSetlists, creates[c].body.setlistId,
                                                    creates[c].body.item)
                /\ setlists' = next
                /\ StoreChanged(next)
                /\ creates' = [creates EXCEPT ![c].pc = "refetch"]
                /\ last' = Step("", 0)
                /\ UNCHANGED <<remoteSongs, pendingSync, songs, error, actions>>
    /\ UNCHANGED otherVars

\* As AddItemDoneBy, but the failure of the re-fetch takes the new item back
\* out of the store.
AddItemDoneByRollingBack(c, ok) ==
    /\ creates[c].kind = "addItem" /\ creates[c].pc = "refetch"
    /\ LET next == IF ok THEN fetchSetlists(remoteSetlists)
                   ELSE WithItems(setlists, creates[c].body.setlistId, creates[c].setlistId,
                                  creates[c].items)
       IN  /\ setlists' = next
           /\ StoreChanged(next)
    /\ last' = IF ok THEN Step("addItemToSetlist:done", creates[c].setlistId)
               ELSE Fault("addItemToSetlist:done", creates[c].setlistId, "API call failed", "")
    /\ creates' = [creates EXCEPT ![c] = NoCreate]
    /\ UNCHANGED <<remoteVars, songs, error, actions>>
    /\ UNCHANGED otherVars

\* The re-fetch has answered; its failure is caught and not rethrown.
AddItemDoneBy(c, ok) ==
    /\ creates[c].kind = "addItem" /\ creates[c].pc = "refetch"
    /\ IF ok
       THEN /\ setlists' = fetchSetlists(remoteSetlists)
            /\ StoreChanged(fetchSetlists(remoteSetlists))
            /\ last' = Step("addItemToSetlist:done", creates[c].setlistId)
       ELSE /\ last' = Fault("addItemToSetlist:done", creates[c].setlistId, "API call failed", "")
            /\ UNCHANGED <<setlists, localItems, hasUnsavedChanges, prevItemsKeyRef>>
    /\ creates' = [creates EXCEPT ![c] = NoCreate]
    /\ UNCHANGED <<remoteVars, songs, error, actions>>
    /\ UNCHANGED otherVars

\* The titles and names given to the create operations, and the ids given
\* to addItemToSetlist: a song of the remote, and the setlists of the remote
\* or the one a create proposes next.
NewTitles == {"D"}
NewNames == {"U"}
GivenSongIds == {1}
GivenSetlistIds == {1, 2, 3}

NextCreate ==
    \/ \E outcome \in {"loaded", "no setlists", "setlists failed", "failed"} : LoadData(outcome)
    \/ \E c \in Callers, title \in NewTitles : addSong(c, title)
    \/ \E c \in Callers, ok \in BOOLEAN : AddSongFetched(c, ok)
    \/ \E c \in Callers, ok \in BOOLEAN : AddSongSaved(c, ok)
    \/ \E c \in Callers, ok \in BOOLEAN : AddSongDone(c, ok)
    \/ \E c \in Callers, name \in NewNames : addSetlist(c, name)
    \/ \E c \in Callers, ok \in BOOLEAN : AddSetlistFetched(c, ok)
    \/ \E c \in Callers, answer \in {"failed", "saved", "saved under another id"} :
          AddSetlistSaved(c, answer)
    \/ \E c \in Callers, ok \in BOOLEAN : AddSetlistDone(c, ok)
    \/ \E c \in Callers, setlistId \in GivenSetlistIds, songId \in GivenSongIds :
          addItemToSetlistBy(c, setlistId, songId)
    \/ \E c \in Callers, ok \in BOOLEAN : AddItemResolvedBy(c, ok)
    \/ \E c \in Callers, ok \in BOOLEAN : AddItemPostedBy(c, ok)
    \/ \E c \in Callers, ok \in BOOLEAN : AddItemDoneBy(c, ok)
    \/ \E sl \in GivenSetlistIds :
          actions < MaxCalls /\ reorderSetlistItems(sl, Reversed(ItemsOf(setlists, sl)))
    \/ \E ok \in BOOLEAN : SaveResolve(ok)
    \/ \E outcome \in {"failed", "applied", "started"} : SaveSynced(outcome)
    \/ \E ok \in BOOLEAN : SaveRefetched(ok)
    \/ RemoteLands

SpecCreate == Init /\ [][NextCreate]_vars

\* The store's mutations called by themselves, each with its remote write and
\* its reads: addSong, deleteSong, addItemToSetlist and reorderSetlistItems.
NextWrites ==
    \/ \E outcome \in {"loaded", "no setlists", "setlists failed", "failed"} : LoadData(outcome)
    \/ \E c \in Callers, title \in NewTitles : addSong(c, title)
    \/ \E c \in Callers, ok \in BOOLEAN : AddSongFetched(c, ok)
    \/ \E c \in Callers, ok \in BOOLEAN : AddSongSaved(c, ok)
    \/ \E c \in Callers, ok \in BOOLEAN : AddSongDone(c, ok)
    \/ \E id \in SongIds : actions < MaxCalls /\ deleteSong(id)
    \/ \E ok \in BOOLEAN : DeleteSongPosted(ok)
    \/ \E ok \in BOOLEAN : DeleteSongDone(ok)
    \/ \E setlistId \in SetlistIds, songId \in SongIds :
          actions < MaxCalls /\ addItemToSetlist(setlistId, songId)
    \/ \E ok \in BOOLEAN : AddItemResolve(ok)
    \/ \E ok \in BOOLEAN : AddItemPosted(ok)
    \/ \E ok \in BOOLEAN : AddItemDone(ok)
    \/ \E sl \in SetlistIds :
          actions < MaxCalls /\ reorderSetlistItems(sl, Reversed(ItemsOf(setlists, sl)))
    \/ \E ok \in BOOLEAN : SaveResolve(ok)
    \/ \E outcome \in {"failed", "applied", "started"} : SaveSynced(outcome)
    \/ \E ok \in BOOLEAN : SaveRefetched(ok)
    \/ RemoteLands

SpecWrites == Init /\ [][NextWrites]_vars

\* The proposal of an id by itself, from any collection of ids: the ids a
\* remote may hold are any strings.
MaxIds == 2
AnyIds == {"1", "2", "10", "007", "12abc", "abc", "", "-3", "uuid-0"}
CreateKinds == {"addSong", "addSetlist", "addItem"}

InitProposal ==
    /\ InitApp
    /\ remoteSongs = InitialSongRows
    /\ syncItems = <<>>
    /\ sent = <<>>
    /\ songCall = NoSongCall
    /\ API_BASE = AllConfigured
    /\ gateway = NoCall
    /\ \E kind \in CreateKinds, ids \in SeqsUpTo(AnyIds, MaxIds) :
          creates = [c \in Callers |->
                        IF c = 1 THEN [NoCreate EXCEPT !.kind = kind, !.pc = "scan", !.scanned = ids]
                        ELSE NoCreate]
    /\ reply = NoReply
    /\ normalized = NotNormalized

\* The loop over the collection and String(maxId + 1).
ProposeId(c) ==
    /\ creates[c].pc = "scan"
    /\ creates' = [creates EXCEPT ![c] =
                       Proposing(creates[c].kind, "proposed", creates[c].scanned, "")]
    /\ UNCHANGED <<remoteVars, storeVars, detailVars, save, op, actions, last, syncItems, sent,
                   songCall, gatewayVars, normalizerVars>>

NextProposal == \E c \in Callers : ProposeId(c)

SpecProposal == InitProposal /\ [][NextProposal]_vars

----------------------------------------------------------------------------
\* The overlay of the displayed setlist.

\* The displayed setlist's items as the store has them, in position order.
ConfirmedItems == SortByPosition(LatestItems(setlists, selectedSetlist))

\* C1 - merge policy: while the displayed setlist has a pending overlay, a
\* step that replaces the store's setlists, other than the completion of the
\* Save of that overlay, leaves localItems and the pending flag as they are.
C1_MergePolicy ==
    [][(hasUnsavedChanges /\ selectedSetlist # NoSetlist /\ setlists' # setlists
            /\ last'.act # "handleSaveChanges:done")
        => (localItems' = localItems /\ hasUnsavedChanges')]_vars

\* A refresh of another operation has changed the displayed setlist's items
\* in the store while the overlay is pending, and the list shows the overlay.
C1_Witness ==
    /\ hasUnsavedChanges
    /\ last.act \in {"addItemToSetlist:done", "deleteSong:done"}
    /\ ItemsKey(setlists, selectedSetlist) # prevItemsKeyRef
    /\ localItems # ConfirmedItems

\* The parts of C2, each about one step.
C2_SentInOrder ==
    (save.pc = "sync" /\ save'.pc = "refetch")
        => /\ save.body.setlistId = save.setlistId
           /\ save.body.mode = "sync_items"
           /\ InPositionOrder(save.items)
           /\ [i \in 1..Len(save.body.items) |-> save.body.items[i].id]
                = [i \in 1..Len(save.items) |-> save.items[i].id]

C2_ClearedOnSuccess ==
    (hasUnsavedChanges /\ ~hasUnsavedChanges' /\ selectedSetlist' = selectedSetlist)
        => last'.act \in {"handleSaveChanges:done", "handleCancelReorder"}

C2_NextRefreshAccepted ==
    (~hasUnsavedChanges /\ selectedSetlist # NoSetlist /\ selectedSetlist' = selectedSetlist
            /\ setlists' # setlists)
        => localItems' = ConfirmedItems'

C2_FailureKeepsOverlay ==
    (save.pc # "idle" /\ save'.pc = "idle" /\ ~save.detached /\ last'.act # "handleSaveChanges:done")
        => (localItems' = localItems /\ hasUnsavedChanges' = hasUnsavedChanges)

\* C2 - Save of a pending overlay: the overlay's items are sent in position
\* order through reorderSetlistItems and syncSetlistItems for the displayed
\* setlist; the pending flag is cleared only when that operation has completed
\* successfully, and from then on a refresh of the store is taken into
\* localItems; when the operation fails, localItems and the flag are kept.
C2_SaveOfOverlay ==
    [][C2_SentInOrder /\ C2_ClearedOnSuccess /\ C2_NextRefreshAccepted
        /\ C2_FailureKeepsOverlay]_vars

\* C3 - Cancel of a pending overlay: localItems becomes the store's current
\* items of the displayed setlist in position order, the pending flag is
\* cleared, and neither the store, the remote nor any call in flight changes.
C3_Cancel ==
    [][(last'.act = "handleCancelReorder")
        => /\ hasUnsavedChanges
           /\ ~hasUnsavedChanges'
           /\ localItems' = ConfirmedItems
           /\ InPositionOrder(localItems')
           /\ UNCHANGED <<remoteVars, storeVars, selectedSetlist, save, op, callVars>>]_vars

\* Cancel has restored a list that a refresh changed while the overlay existed.
C3_Witness ==
    /\ last.act = "handleCancelReorder"
    /\ selectedSetlist = 1
    /\ ~hasUnsavedChanges
    /\ localItems = ConfirmedItems
    /\ ConfirmedItems # SortByPosition(FetchedItems(InitialSetlistRows[1].items))

----------------------------------------------------------------------------
\* The cascade of deleteSong.

\* No item of the list refers to the song.
NoItemOf(items, songId) == \A i \in 1..Len(items) : items[i].songId # songId

\* C4 - cascade delete, removal: when deleteSong(X) has completed, no item
\* with songId X is left in any setlist of the store nor in localItems of the
\* displayed setlist, with or without a pending overlay.
C4_CascadeRemoves ==
    (last.act = "deleteSong:done")
        => /\ \A i \in 1..Len(setlists) : NoItemOf(setlists[i].items, last.x)
           /\ selectedSetlist # NoSetlist => NoItemOf(localItems, last.x)

\* C5 - cascade delete, re-sequencing: when deleteSong(X) completes, every
\* setlist that held an item of X has positions 0..n-1 in array order.
C5_CascadeResequences ==
    [][(last'.act = "deleteSong:done")
        => \A i \in 1..Len(setlists) :
              ~NoItemOf(setlists[i].items, last'.x) => Dense(setlists'[i].items)]_vars

----------------------------------------------------------------------------
\* Positions on the way to the remote.

\* C6 - syncSetlistItems transmits the items it was given, in their array
\* order, with the positions 0..n-1 whatever positions they came with.
C6_SequentialPositions ==
    (last.act = "syncSetlistItems:posted")
        => /\ Len(sent) = 1
           /\ sent[1].setlistId = last.x
           /\ Len(sent[1].items) = Len(syncItems)
           /\ \A i \in 1..Len(syncItems) :
                 /\ sent[1].items[i].id = syncItems[i].id
                 /\ sent[1].items[i].songId = syncItems[i].songId
                 /\ sent[1].items[i].position = i - 1

\* A list with repeated or gapped or unsorted positions has been transmitted.
C6_Witness ==
    /\ last.act = "syncSetlistItems:posted"
    /\ Len(syncItems) >= 2
    /\ ~Dense(syncItems)
    /\ ~InPositionOrder(syncItems)

----------------------------------------------------------------------------
\* Positions after a write.

\* The ids of the items, in array order.
IdsOf(items) == [i \in 1..Len(items) |-> items[i].id]

\* C7 - when reorderSetlistItems completes and its re-fetch shows the items
\* that were sent, the target setlist's items in the store have positions
\* 0..n-1 in array order.
C7_ReorderPositions ==
    [][(save.pc = "refetch" /\ save'.pc = "idle"
            /\ last'.act \in {"handleSaveChanges:done", "reorderSetlistItems:done"}
            /\ IdsOf(ItemsOf(setlists', save.body.setlistId)) = IdsOf(save.body.items))
        => Dense(ItemsOf(setlists', save.body.setlistId))]_vars

\* A Save has completed, the re-fetch has shown what was sent, and the items
\* are not those the setlist started with.
C7_Witness ==
    /\ last.act = "handleSaveChanges:done"
    /\ pendingSync = <<>>
    /\ ItemsOf(setlists, last.x) = ItemsOf(fetchSetlists(remoteSetlists), last.x)
    /\ \A i \in 1..Len(InitialSetlistRows) :
          InitialSetlistRows[i].id = last.x
              => IdsOf(ItemsOf(setlists, last.x)) # IdsOf(InitialSetlistRows[i].items)

\* The steps that commit a mutation of the store's setlists.
CommittedMutations ==
    {"handleSaveChanges:done", "reorderSetlistItems:done", "deleteSong:done",
     "addItemToSetlist:done", "removeItemFromSetlist:done", "duplicateSetlistItems:done"}

\* C8 - position invariant of the store: after a committed mutation every
\* setlist of the store has the positions 0..n-1, in array order.
C8_StorePositions ==
    (last.act \in CommittedMutations)
        => \A i \in 1..Len(setlists) : Dense(setlists[i].items)

----------------------------------------------------------------------------
\* The confirmation search of saveSong.

\* A poll has answered and its search has been done.
Polled == songCall.pc \in {"wait", "returned"} /\ songCall.attempt >= 1 /\ songCall.write # "none"

\* An artist that is neither absent nor blank.
NonBlank(artist) == artist \notin {"", " "}

\* The rule of C9 for a polled song s and the submitted song.
SameTitleAndArtist(s, song) ==
    /\ s.title = song.title
    /\ \/ NonBlank(s.artist) /\ NonBlank(song.artist) /\ s.artist = song.artist
       \/ ~NonBlank(s.artist) /\ ~NonBlank(song.artist)

\* The polled songs the rule of C9 accepts, in the order of the poll.
Accepted == SelectSeq(songCall.allSongs, LAMBDA s : SameTitleAndArtist(s, songCall.song))

\* The polled songs with the id of the submitted song, in the order of the poll.
WithProposedId == SelectSeq(songCall.allSongs, LAMBDA s : s.id = songCall.song.id)

\* C9 - confirmation fallback match: when a poll is not settled by the id,
\* the title/artist search finds a song exactly when some polled song has the
\* submitted title and either both artists are non-blank and equal or both
\* are absent or blank; the call then returns the first such song, id included.
C9_FallbackMatch ==
    (Polled /\ songCall.via # "id")
        => /\ (songCall.via = "title") <=> (Accepted # <<>>)
           /\ (songCall.via = "title") =>
                 (songCall.pc = "returned" /\ songCall.result = <<Accepted[1]>>)
           /\ \A i \in 1..Len(songCall.allSongs) :
                 (songCall.allSongs[i].title = songCall.song.title
                     /\ NonBlank(songCall.allSongs[i].artist) # NonBlank(songCall.song.artist))
                 => songCall.result # <<songCall.allSongs[i]>>

\* A create of {title, artist, proposed id 2} has resolved to the polled song
\* of the same title and artist with the id the remote assigned.
C9_Witness ==
    /\ Polled
    /\ songCall.mode = "create"
    /\ songCall.via = "title"
    /\ NonBlank(songCall.song.artist)
    /\ songCall.result # <<>>
    /\ songCall.result[1].id = RemoteSongId
    /\ songCall.result[1].id # songCall.song.id
    /\ \E i \in 1..Len(songCall.allSongs) :
          /\ songCall.allSongs[i].title = songCall.song.title
          /\ ~SameTitleAndArtist(songCall.allSongs[i], songCall.song)

\* C10 as stated - on every poll the song with the proposed id is looked for
\* first, for creates as for updates, and the title/artist search is used
\* only for creates and only when no song has the proposed id.
C10_IdFirstForAll ==
    Polled
        => /\ (WithProposedId # <<>>)
                => (songCall.via = "id" /\ songCall.result = <<WithProposedId[1]>>)
           /\ (songCall.via = "title")
                => (songCall.mode = "create" /\ WithProposedId = <<>>)

\* C10 amended - on every poll of an update the song with the submitted id is
\* looked for first and returned when present; a create is never searched by
\* id; the title/artist search is used for creates always and for updates
\* when no polled song has the id, and the song it finds is returned.
C10_SearchOrder ==
    Polled
        => /\ (songCall.mode = "update" /\ WithProposedId # <<>>)
                => (songCall.via = "id" /\ songCall.result = <<WithProposedId[1]>>)
           /\ (songCall.via = "id") => (songCall.mode = "update" /\ WithProposedId # <<>>)
           /\ (songCall.mode = "create" \/ WithProposedId = <<>>)
                => /\ (songCall.via = "title") <=> (Accepted # <<>>)
                   /\ (songCall.via = "title") => songCall.result = <<Accepted[1]>>

\* A poll of a create has shown a song with the proposed id that the search
\* did not take, and the polling goes on.
C10_Witness ==
    /\ Polled
    /\ songCall.mode = "create"
    /\ WithProposedId # <<>>
    /\ songCall.via = ""
    /\ songCall.pc = "wait"

----------------------------------------------------------------------------
\* The confirmation loop of saveSong.

\* C11 - the confirmation loop is bounded and ends: the song collection is
\* re-read only after a "Workflow was started" answer, at most 5 times for a
\* create and 3 times for an update; every pass of the loop is one more read;
\* while the loop goes on no earlier poll has found the song and a further
\* attempt is left; the poll that finds the song returns it at once; the
\* fallback is returned only after the last attempt; a create has strictly
\* more attempts than an update.
C11_BoundedConfirmation ==
    [][ /\ songCall.attempt <= (IF songCall.mode = "create" THEN 5 ELSE 3)
        /\ (songCall.attempt >= 1) => (songCall.write # "none")
        /\ (songCall.pc = "wait")
              => /\ songCall.updatedSong = <<>>
                 /\ songCall.attempt < (IF songCall.mode = "create" THEN 5 ELSE 3)
        /\ (songCall.pc = "wait" /\ songCall'.write = songCall.write /\ songCall' # songCall)
              => songCall'.attempt = songCall.attempt + 1
        /\ (songCall.pc = "wait" /\ songCall'.updatedSong # <<>>)
              => (songCall'.pc = "returned" /\ songCall'.result = songCall'.updatedSong)
        /\ (songCall.pc = "returned") => (songCall'.attempt = songCall.attempt)
        /\ (songCall.pc = "returned" /\ songCall.attempt >= 1 /\ songCall.via = "")
              => songCall.attempt = (IF songCall.mode = "create" THEN 5 ELSE 3)
        /\ SongMaxRetries("create") > SongMaxRetries("update")
      ]_vars

\* A create has been found by its second poll, after a first poll that did
\* not show it, and the call has returned with three attempts unused.
C11_Witness ==
    /\ songCall.pc = "returned"
    /\ songCall.mode = "create"
    /\ songCall.attempt = 2
    /\ songCall.via = "title"
    /\ songCall.write = "landed"

\* saveSong has polled to the last attempt without finding the song.
Exhausted ==
    /\ songCall.pc \in {"returned", "threw"}
    /\ songCall.attempt = SongMaxRetries(songCall.mode)
    /\ songCall.updatedSong = <<>>
    /\ songCall.error = ""

\* C12 - on exhaustion saveSong does not throw: it returns a song made of the
\* submitted input alone, the proposed id with the submitted title and artist.
C12_ExhaustedFallback ==
    /\ Exhausted
          => /\ songCall.pc = "returned"
             /\ songCall.result =
                   <<[id |-> songCall.song.id, title |-> songCall.song.title,
                      artist |-> songCall.song.artist]>>
    /\ (songCall.pc = "threw") => (songCall.error = "API call failed")

\* A create has been polled five times while rows of other songs were read.
C12_Witness ==
    /\ Exhausted
    /\ songCall.mode = "create"
    /\ songCall.attempt = 5
    /\ songCall.allSongs # <<>>
    /\ songCall.result # <<>>
    /\ songCall.result[1].id = songCall.song.id

\* C13 - the song returned on exhaustion is distinguishable from a confirmed
\* one: a song returned because a poll found it is never the value that
\* exhaustion returns for the same submitted input.
C13_UnconfirmedMarked ==
    (songCall.pc = "returned" /\ songCall.attempt >= 1 /\ songCall.via # "")
        => songCall.result # <<fallbackSong(songCall.song)>>

\* C15 - a gateway call issues exactly one request to the remote per
\* invocation, whatever the answer: a saveSong call that has ended has made
\* one request.
C15_OneRoundTrip ==
    (songCall.pc \in {"returned", "threw"}) => (songCall.trips = 1)

----------------------------------------------------------------------------
\* The errors of the gateway functions.

\* C16 - a gateway function whose URL is not set fails with a configuration
\* error before any request is issued, fetchSetlists like the others.
C16_ConfigurationError ==
    (gateway.fn # "" /\ gateway.url = Unset)
        => /\ gateway.outcome = "threw"
           /\ gateway.fetches = 0
           /\ gateway.error \in {"API URL is not configured", "Setlist item save URL is not configured",
                                 "Setlist save URL is not configured",
                                 "Setlist delete URL is not configured"}

\* The answers that are a failure status or a malformed payload, the failure
\* of an empty sheet answered to fetchSetlists set apart.
TransportFailure ==
    /\ gateway.fetches = 1
    /\ \/ gateway.answer \in {"failed", "not json", "bad json"}
       \/ gateway.answer = "no item" /\ gateway.fn # "fetchSetlists"

\* C17 - a gateway call whose answer is a failure status or a malformed
\* payload, a success that is not JSON included, fails with an error and
\* hands no entity to its caller.
C17_TransportError ==
    TransportFailure => (gateway.outcome = "threw" /\ gateway.error # "" /\ gateway.value = <<>>)

\* C18 - fetchSetlists returns the empty collection when the remote's failure
\* says 'No item to return', and rethrows every other failure of the call as
\* apiCall threw it.
C18_NoDataYet ==
    (gateway.fn = "fetchSetlists" /\ gateway.fetches = 1)
        => /\ (gateway.answer = "no item")
                 => (gateway.outcome = "returned" /\ gateway.value = <<>> /\ gateway.error = "")
           /\ (gateway.answer = "failed")
                 => (gateway.outcome = "threw"
                        /\ gateway.error = "API call failed: 500. Internal Server Error")
           /\ (gateway.answer = "bad json")
                 => (gateway.outcome = "threw"
                        /\ gateway.error = "Invalid JSON response from server")

\* The remote has answered 'No item to return' to a configured fetchSetlists,
\* which has returned the empty collection.
C18_Witness ==
    /\ gateway.fn = "fetchSetlists"
    /\ gateway.url = Webhook
    /\ gateway.fetches = 1
    /\ gateway.answer = "no item"
    /\ gateway.outcome = "returned"
    /\ gateway.value = <<>>

----------------------------------------------------------------------------
\* Acknowledged writes of the store.

\* C14 - a write answered by the acknowledgement 'Workflow was started' is
\* not taken for committed: reorderSetlistItems, whose sync_items request was
\* acknowledged and has not landed, completes only when the re-fetched
\* setlists show the change or its attempts are exhausted.
C14_AckIsConfirmed ==
    [][ ( /\ save.pc = "refetch" /\ save'.pc = "idle"
          /\ last'.act \in {"handleSaveChanges:done", "reorderSetlistItems:done"}
          /\ pendingSync # <<>>
          /\ pendingSync[1] = save.body )
        => ( \/ save.retryCount = MaxRetries
             \/ fetchSetlists(RemoteApplySync(remoteSetlists, save.body))
                    = fetchSetlists(remoteSetlists) ) ]_vars

----------------------------------------------------------------------------
\* The errors of the store's operations.

\* C19 - NotFoundLocally: a store operation issues its first gateway call
\* only when the song and the setlists it names are in the store; named with
\* an id the store does not hold, it is aborted before any call.
C19_NotFoundLocally ==
    [][ /\ (op.kind = "none" /\ op'.kind # "none")
            => /\ (op'.kind = "deleteSong") => HasSong(songs, op'.a)
               /\ (op'.kind = "addItem")
                     => (FindById(setlists, op'.a) # <<>> /\ HasSong(songs, op'.b))
               /\ (op'.kind = "removeItem") => (FindById(setlists, op'.a) # <<>>)
               /\ (op'.kind = "duplicate")
                     => (FindById(setlists, op'.a) # <<>> /\ FindById(setlists, op'.b) # <<>>)
        /\ (save.pc = "idle" /\ save'.pc = "fetch")
            => (FindById(setlists, save'.setlistId) # <<>>) ]_vars

\* C20 - an error a gateway call raised inside a store operation is the
\* error the operation throws to its caller, and the error loadData reports;
\* only the empty answer of fetchSetlists, which raises nothing, passes
\* without an error.
C20_ErrorPropagation ==
    (last.raised # "")
        => IF last.act = "loadData" THEN error = last.raised
           ELSE (last.thrown = last.raised /\ error = last.raised)

----------------------------------------------------------------------------
\* The normalization of replies.

\* C24 - shape invariance: fetchSongs makes of a collection of song rows the
\* same songs in whichever shape the reply carries it (under the wrapper
\* key, as an array, as an array of wrappers with the collection or with one
\* row each, as an object keyed by the indexes, one row as a bare object):
\* those it makes of the bare array.
C24_ShapeInvariance ==
    (normalized.fn = "fetchSongs" /\ reply.entity = "songs")
        => normalized = fetchSongsOf(JArr(reply.of))

\* The names of the song reference of an item row.
Aliases == {"songId", "song_id", "songID", "SongId"}

\* C25 - an item row without a song reference under any of the four names is
\* left out of its setlist and does not make fetchSetlists fail; the items
\* of the setlist are the other item rows, in their order, each with the
\* reference it carries.
C25_UnreferencedItemsExcluded ==
    (normalized.fn = "fetchSetlists" /\ reply.entity = "setlists" /\ reply.shape = "array")
        => /\ normalized.outcome = "returned"
           /\ Len(normalized.value) = Len(reply.of)
           /\ \A r \in 1..Len(reply.of) :
                 LET rowItems == Get(reply.of[r], "items").arr
                     Referenced(it) == \E a \in Aliases : HasKey(it, a) /\ Truthy(it.obj[a])
                     others == SelectSeq(rowItems, Referenced)
                     items == normalized.value[r].items
                 IN  /\ Len(items) = Len(others)
                     /\ \A i \in 1..Len(others) :
                           /\ items[i].id = StringOf(Get(others[i], "id"))
                           /\ \E a \in Aliases :
                                 /\ HasKey(others[i], a) /\ Truthy(others[i].obj[a])
                                 /\ items[i].songId = StringOf(others[i].obj[a])

\* A setlist row with an item named by SongId alone and an item without a
\* reference has been normalized to the one item.
C25_Witness ==
    /\ normalized.fn = "fetchSetlists"
    /\ normalized.outcome = "returned"
    /\ reply.entity = "setlists"
    /\ Len(reply.of) = 1
    /\ Get(reply.of[1], "items") = JArr(<<JObj([id |-> JNum(5), position |-> JNum(1)]),
                                          JObj([id |-> JNum(4), SongId |-> JNum(1)])>>)
    /\ Len(normalized.value[1].items) = 1
    /\ normalized.value[1].items[1].id = "4"
    /\ normalized.value[1].items[1].songId = "1"

\* The rows of the reply that carry a date.
DatedRows ==
    IF reply.entity = "setlists" THEN SelectSeq(reply.of, LAMBDA row : HasKey(row, "date"))
    ELSE IF IsObject(reply.data) /\ HasKey(reply.data, "date") THEN <<reply.data>>
    ELSE <<>>

\* C26 - date normalization of fetchSetlists: "12/02/2025" becomes
\* "2025-12-02", month and day are padded to two digits, a string without
\* '/' is returned unchanged, and no date makes fetchSetlists throw.
C26_DateNormalization ==
    (normalized.fn = "fetchSetlists" /\ DatedRows # <<>>)
        => /\ normalized.outcome = "returned"
           /\ Len(normalized.value) = Len(DatedRows)
           /\ \A r \in 1..Len(DatedRows) :
                 LET date == Get(DatedRows[r], "date") IN
                 IsString(date) =>
                    /\ (date.str = "12/02/2025") => (normalized.value[r].date = JStr("2025-12-02"))
                    /\ (date.str = "1/2/2025") => (normalized.value[r].date = JStr("2025-01-02"))
                    /\ (~Includes(date.str, "/")) => (normalized.value[r].date = date)

\* C27 - fetchSongs and fetchSetlists return a sequence of entities for every
\* JSON value a successful read is answered with; neither throws.
C27_NeverThrows ==
    (normalized.fn # "") => (normalized.outcome = "returned")

----------------------------------------------------------------------------
\* Repeated writes.

----------------------------------------------------------------------------
\* The create operations.

\* A caller's create of the given kind has sent its write and has not yet
\* seen it confirmed by the re-fetch.
Unconfirmed(c, kind) == creates[c].kind = kind /\ creates[c].pc \in {"save", "post", "refetch"}

\* C22 - while the write of an addSong or addSetlist call is not yet confirmed
\* by the re-fetch, the new entity, under the id the call proposes, is in the
\* store's songs or setlists.
C22_OptimisticCreation ==
    \A c \in Callers :
        /\ Unconfirmed(c, "addSong") => HasSong(songs, IdOf(creates[c].id))
        /\ Unconfirmed(c, "addSetlist") => FindById(setlists, IdOf(creates[c].id)) # <<>>

\* The write of a caller's create has succeeded and this step is the failure
\* of its confirming re-fetch.
RefetchFails(c, kind) ==
    /\ creates[c].kind = kind /\ creates[c].pc = "refetch"
    /\ creates'[c] = NoCreate
    /\ last'.raised # ""

FoundByName(fetched, known, setlistId) ==
    /\ FindById(fetched, setlistId) = <<>>
    /\ FindById(known, setlistId) # <<>>
    /\ FindByName(fetched, FindById(known, setlistId)[1].name) # <<>>

\* Neither the id nor the name the known setlists have for it is in the
\* fetched collection.
NotFound(fetched, known, setlistId) ==
    /\ FindById(fetched, setlistId) = <<>>
    /\ \/ FindById(known, setlistId) = <<>>
       \/ FindByName(fetched, FindById(known, setlistId)[1].name) = <<>>

\* The id of the fetched setlist that has the name the store has for the id.
IdByName(fetched, known, setlistId) ==
    FindByName(fetched, FindById(known, setlistId)[1].name)[1].id

\* C23 - when fetchSetlists has answered addItemToSetlist or
\* reorderSetlistItems and no fetched setlist has the given id: if the store
\* has a setlist with that id and a fetched setlist has its name, the request
\* is posted with the fetched setlist's id; if not, the operation throws and
\* nothing is written.
C23_IdentityReresolution ==
    [][ LET fetched == fetchSetlists(remoteSetlists)
        IN  /\ \A c \in Callers :
                 (creates[c].kind = "addItem" /\ creates[c].pc = "fetch" /\ creates'[c] # creates[c]
                    /\ last'.raised = "")
                 => /\ FoundByName(fetched, creates[c].known, creates[c].setlistId)
                       => /\ creates'[c].pc = "post"
                          /\ creates'[c].body.setlistId = IdByName(fetched, creates[c].known, creates[c].setlistId)
                    /\ NotFound(fetched, creates[c].known, creates[c].setlistId)
                       => /\ creates'[c] = NoCreate
                          /\ last'.thrown # ""
                          /\ remoteSetlists' = remoteSetlists /\ pendingSync' = pendingSync
            /\ (save.pc = "fetch" /\ save' # save /\ last'.raised = "")
               => /\ FoundByName(fetched, save.known, save.setlistId)
                     => /\ save'.pc = "sync"
                        /\ save'.body.setlistId = IdByName(fetched, save.known, save.setlistId)
                  /\ NotFound(fetched, save.known, save.setlistId)
                     => /\ save' = NoSave
                        /\ last'.thrown # ""
                        /\ remoteSetlists' = remoteSetlists /\ pendingSync' = pendingSync ]_vars

\* An addItemToSetlist call is posting its item to a setlist whose id is not
\* the id it was given: the store has the setlist under the given id, the
\* remote under the other.
C23_Witness ==
    \E c \in Callers :
        /\ creates[c].kind = "addItem" /\ creates[c].pc = "post"
        /\ creates[c].body.setlistId # creates[c].setlistId
        /\ FindById(setlists, creates[c].setlistId) # <<>>
        /\ FindById(fetchSetlists(remoteSetlists), creates[c].setlistId) = <<>>
        /\ FindById(fetchSetlists(remoteSetlists), creates[c].body.setlistId) # <<>>

\* The integers parseInt reads from the ids.
ParsedIds(ids) == {parseInt(ids[i])[1] : i \in {k \in 1..Len(ids) : parseInt(ids[k]) # NaN}}

\* The largest of a set of integers, 0 for the empty set.
LargestOf(ns) == IF ns = {} THEN 0 ELSE CHOOSE m \in ns : \A n \in ns : n <= m

C30_ProposalsCollide ==
    [][ \A c1 \in Callers, c2 \in Callers, kind \in CreateKinds :
          (c1 # c2 /\ Unconfirmed(c1, kind) /\ creates'[c1] = creates[c1]
             /\ creates[c2].id = "" /\ creates'[c2].id # ""
             /\ creates'[c2].kind = kind /\ creates'[c2].scanned = creates[c1].scanned)
          => /\ creates'[c2].id = creates[c1].id
             /\ creates'[c2].pc \in {"save", "post"} ]_vars

\* Two calls of the same kind are both awaiting their write, with the same
\* proposed id.
C30_Witness ==
    \E kind \in CreateKinds :
        /\ \A c \in Callers : creates[c].kind = kind /\ creates[c].pc \in {"save", "post"}
        /\ creates[1].id = creates[2].id
        /\ creates[1].id # ""

----------------------------------------------------------------------------
\* Overlapping mutations of one setlist.

\* C31 - a mutation that bypasses the overlay writes what its own read gave
\* it: addItemToSetlist replaces the store's items of the setlist by the items
\* it fetched plus its own, whatever the store holds by then, and the sync of
\* reorderSetlistItems leaves the remote setlist with the items it was given
\* and no others.  What another call wrote between the read and the write is
\* lost.
C31_StaleOverwrite ==
    [][ /\ \A c \in Callers :
             (creates[c].kind = "addItem" /\ creates[c].pc = "post" /\ creates'[c].pc = "refetch")
             => \A i \in 1..Len(setlists) :
                   setlists[i].id \in {creates[c].body.setlistId, creates[c].setlistId}
                   => setlists'[i].items =
                         SortByPosition(Append(creates[c].items, creates[c].body.item))
        /\ (save.pc = "sync" /\ save'.pc = "refetch" /\ pendingSync' = pendingSync)
           => ItemsOf(remoteSetlists', save.body.setlistId) = save.body.items ]_vars

\* A lost update: reorderSetlistItems has completed and an addItemToSetlist
\* call on the same setlist has had its write accepted; the remote holds the
\* items the setlist had when addItemToSetlist read it, in the order
\* reorderSetlistItems was given, and the added item is neither among the
\* remote's items of the setlist nor among the store's.
C31_Witness ==
    \E c \in Callers :
        /\ creates[c].kind = "addItem" /\ creates[c].pc = "refetch"
        /\ Len(creates[c].items) > 1
        /\ ItemsOf(remoteSetlists, creates[c].body.setlistId) = Reversed(creates[c].items)
        /\ save = NoSave /\ pendingSync = <<>>
        /\ last.act = "reorderSetlistItems:done" /\ last.x = creates[c].body.setlistId
        /\ FindById(setlists, last.x) # <<>>
        /\ \A i \in 1..Len(ItemsOf(remoteSetlists, last.x)) :
              ItemsOf(remoteSetlists, last.x)[i].id # creates[c].body.item.id
        /\ \A i \in 1..Len(ItemsOf(setlists, last.x)) :
              ItemsOf(setlists, last.x)[i].id # creates[c].body.item.id

----------------------------------------------------------------------------
\* The displayed setlist and its overlay.

\* C32 - with a setlist displayed, no pending overlay and the sync effect run,
\* the visible list is the store's items of that setlist sorted by position.
C32_VisibleIsConfirmed ==
    (selectedSetlist # NoSetlist /\ ~hasUnsavedChanges)
    => localItems = SortByPosition(LatestItems(setlists, selectedSetlist))

\* C33 - when the displayed setlist changes from one setlist to another, the
\* overlay of the first does not go with it: the visible list is the store's
\* items of the setlist now displayed and nothing is pending, so that a Save
\* sends to a setlist only what was edited on it.
C33_OverlayStaysWithItsSetlist ==
    [][ (selectedSetlist # NoSetlist /\ selectedSetlist' # NoSetlist
           /\ selectedSetlist' # selectedSetlist)
        => /\ ~hasUnsavedChanges'
           /\ localItems' = SortByPosition(LatestItems(setlists', selectedSetlist')) ]_vars

\* C34 - a local edit keeps the positions dense: when localItems has the
\* positions 0..n-1 in array order, the list a local add, remove or drop leaves
\* has the positions 0..m-1 in array order, m being its length.
C34_LocalEditsKeepDense ==
    [][ (hasUnsavedChanges' /\ localItems' # localItems /\ Dense(localItems))
        => Dense(localItems') ]_vars

\* An added item was dragged to the head of a list from which a stored item had
\* been removed.
C34_Witness ==
    /\ selectedSetlist # NoSetlist
    /\ hasUnsavedChanges
    /\ Len(localItems) > 1
    /\ Dense(localItems)
    /\ localItems[1].id > MaxItemId(setlists)
    /\ localItems[2].id <= MaxItemId(setlists)
    /\ \E i \in 1..Len(LatestItems(setlists, selectedSetlist)) :
          \A k \in 1..Len(localItems) :
              localItems[k].id # LatestItems(setlists, selectedSetlist)[i].id

\* A list of ids without one id.
WithoutId(ids, id) == SelectSeq(ids, LAMBDA x : x # id)

\* C35 - a drop is a pure reorder: the step that ends a drag with a changed list
\* leaves a list of the same length and the same ids in which the dragged item
\* stands at an index another item had, once, and the other items keep their
\* relative order; a drop that leaves the list as it was (on the dragged item
\* itself) leaves the pending flag as it was.
C35_DropIsPureReorder ==
    [][ (draggedItem # <<>> /\ draggedItem' = <<>>
           /\ selectedSetlist # NoSetlist /\ selectedSetlist' = selectedSetlist
           /\ setlists' = setlists)
        => IF localItems' = localItems
           THEN hasUnsavedChanges' = hasUnsavedChanges
           ELSE /\ Len(localItems') = Len(localItems)
                /\ \E t \in 1..Len(localItems) :
                      /\ localItems'[t].id = draggedItem[1].id
                      /\ localItems[t].id # draggedItem[1].id
                /\ Len(WithoutId(IdsOf(localItems'), draggedItem[1].id)) = Len(localItems) - 1
                /\ WithoutId(IdsOf(localItems'), draggedItem[1].id)
                      = WithoutId(IdsOf(localItems), draggedItem[1].id) ]_vars

\* The item ids of the store's setlists.
ConfirmedIds(sls) == UNION {Range(IdsOf(sls[i].items)) : i \in 1..Len(sls)}

\* C36 - a local add gives the new item an id greater than every item id of the
\* store's setlists and of the list it is added to, so that a list whose ids
\* are pairwise distinct has pairwise distinct ids after any number of local
\* adds.
C36_LocalAddIdsAreFresh ==
    [][ (hasUnsavedChanges' /\ selectedSetlist' = selectedSetlist
           /\ Len(localItems') = Len(localItems) + 1)
        => /\ \E k \in 1..Len(localItems') :
                 /\ \A id \in ConfirmedIds(setlists) : localItems'[k].id > id
                 /\ \A j \in 1..Len(localItems) : localItems'[k].id > localItems[j].id
                 /\ WithoutId(IdsOf(localItems'), localItems'[k].id) = IdsOf(localItems)
           /\ (Cardinality(Range(IdsOf(localItems))) = Len(localItems)
                 => Cardinality(Range(IdsOf(localItems'))) = Len(localItems')) ]_vars

\* Two consecutive local adds while the store holds items of several setlists.
C36_Witness ==
    /\ hasUnsavedChanges
    /\ Cardinality(ConfirmedIds(setlists)) > 2
    /\ \E k \in 1..Len(localItems) : \E j \in 1..Len(localItems) :
          /\ k # j
          /\ \A id \in ConfirmedIds(setlists) : localItems[k].id > id /\ localItems[j].id > id

\* The awaits at which a store mutation writes to the remote.
WriteAwaits == {"delete", "post", "sync", "save"}

C38_RemovalReachesRemote ==
    [][ (op.kind = "removeItem" /\ op' = NoOp /\ last'.raised = ""
           /\ op.b \in Range(IdsOf(ItemsOf(remoteSetlists, op.a))))
        => /\ IdsOf(ItemsOf(setlists', op.a)) = WithoutId(IdsOf(ItemsOf(setlists, op.a)), op.b)
           /\ Dense(ItemsOf(setlists', op.a))
           /\ op.b \notin Range(IdsOf(ItemsOf(fetchSetlists(remoteSetlists'), op.a))) ]_vars

\* The song references of a list of items, in array order.
SongRefsOf(items) == [k \in 1..Len(items) |-> items[k].songId]

\* C39 - duplicateSetlistItems(from, to) starts its first request only with
\* both setlists in the store and items in the source; the sync_items request
\* it posts names the destination and carries the destination's items of the
\* store in their order followed by one copy of each source item in source
\* order, the copies with pairwise distinct ids greater than every item id of
\* the store and of the fetched setlists; and the remote's items of a source
\* other than the destination are as before when the request is applied.
C39_DuplicateAppendsCopies ==
    [][ /\ (op.kind = "none" /\ op'.kind = "duplicate")
           => /\ FindById(setlists, op'.a) # <<>>
              /\ FindById(setlists, op'.b) # <<>>
              /\ ItemsOf(setlists, op'.a) # <<>>
              /\ remoteSetlists' = remoteSetlists /\ pendingSync' = pendingSync
        /\ (op.kind = "duplicate" /\ op.pc = "fetch" /\ op'.pc = "sync")
           => LET existing == ItemsOf(op.known, op.b)
                  source == ItemsOf(op.known, op.a)
                  copies == SubSeq(op'.body.items, Len(existing) + 1, Len(op'.body.items))
              IN  /\ op'.body.setlistId = op.b
                  /\ Len(op'.body.items) = Len(existing) + Len(source)
                  /\ IdsOf(SubSeq(op'.body.items, 1, Len(existing))) = IdsOf(existing)
                  /\ SongRefsOf(SubSeq(op'.body.items, 1, Len(existing))) = SongRefsOf(existing)
                  /\ SongRefsOf(copies) = SongRefsOf(source)
                  /\ Cardinality(Range(IdsOf(copies))) = Len(copies)
                  /\ \A k \in 1..Len(copies) :
                        \A id \in ConfirmedIds(op.known) \cup ConfirmedIds(fetchSetlists(remoteSetlists)) :
                            copies[k].id > id
        /\ (op.kind = "duplicate" /\ op.pc = "sync" /\ op'.pc = "refetch" /\ op.a # op.b)
           => ItemsOf(remoteSetlists', op.a) = ItemsOf(remoteSetlists, op.a) ]_vars

====
